---- MODULE Spec2Model ----
(***************************************************************************)
(* PGNManager (src/index.ts, lines 1-462) and regeneratePGN (src/utils.ts) *)
(* as a state machine.                                                     *)
(*                                                                         *)
(* Move and Rav objects live in two arenas (moveObjs, ravObjs); an object  *)
(* reference is its index in the arena, so reference identity (===,        *)
(* indexOf, Map keys) is integer equality.  The document root (ParsedPGN)  *)
(* is the variable game; as a container it is referred to as GameRoot.     *)
(* The rules engine (chess.js) and the tokenizer (pgn-parser) are external:*)
(* a position is the FEN it was loaded from followed by the canonical      *)
(* texts of the moves played since, and the tokenizer is a finite table of *)
(* input texts with the trees it returns for them.                         *)
(***************************************************************************)
EXTENDS Integers, Sequences, FiniteSets, TLC

VARIABLES rawPGN, game, moveObjs, ravObjs,
          sortedMoves, moveFen, moveParent, ravParent, moveColor, ret

vars == <<rawPGN, game, moveObjs, ravObjs,
          sortedMoves, moveFen, moveParent, ravParent, moveColor, ret>>

(* Bound: Move objects ever allocated by one manager (tokenizer + pushMove) *)
MaxMoves == 4

(***************************************************************************)
(* JavaScript values                                                       *)
(***************************************************************************)
\* undefined, where a Move reference or a number is expected
Undefined == 0
\* the ParsedPGN root, where a Rav (container) reference is expected
GameRoot == 0
\* undefined, where a Rav reference is expected (Map.get of an absent key)
NoRav == -1
\* undefined + 1
NaN == -1
\* null, where an array is expected (ParsedPGN.headers, .comments, ...)
Null == [isNull |-> TRUE, items |-> <<>>]
Arr(s) == [isNull |-> FALSE, items |-> s]

Return(v) == [kind |-> "return", val |-> v, err |-> ""]
Throw(msg) == [kind |-> "throw", val |-> Undefined, err |-> msg]

\* Map.set, Map.delete, Map.has, Map.get on a function with a finite domain
MapSet(m, k, v) == [x \in (DOMAIN m) \cup {k} |-> IF x = k THEN v ELSE m[x]]
MapDelete(m, k) == [x \in (DOMAIN m) \ {k} |-> m[x]]
MapHas(m, k) == k \in DOMAIN m
EmptyMap == [x \in {} |-> 0]

\* Array.prototype.indexOf: 0-based index of the first occurrence, or -1
IndexOf(s, x) ==
  IF \E i \in 1..Len(s) : s[i] = x
    THEN (CHOOSE i \in 1..Len(s) : s[i] = x /\ \A j \in 1..(i - 1) : s[j] # x) - 1
    ELSE -1

\* s[i] with a 0-based index i: undefined outside the array
At(s, i) == IF i >= 0 /\ i < Len(s) THEN s[i + 1] ELSE Undefined

\* Array.prototype.splice(index): the elements kept, and the elements removed
SpliceStart(s, index) ==
  IF index < 0 THEN (IF Len(s) + index < 0 THEN 0 ELSE Len(s) + index)
  ELSE IF index > Len(s) THEN Len(s) ELSE index
SpliceKept(s, index) == SubSeq(s, 1, SpliceStart(s, index))
SpliceRemoved(s, index) == SubSeq(s, SpliceStart(s, index) + 1, Len(s))

RECURSIVE Join(_, _)
\* Array.prototype.join
Join(parts, sep) ==
  IF Len(parts) = 0 THEN ""
  ELSE IF Len(parts) = 1 THEN parts[1]
  ELSE parts[1] \o sep \o Join(Tail(parts), sep)

(***************************************************************************)
(* The rules engine (chess.js), external                                   *)
(***************************************************************************)
FEN_START_POSITION == "startpos"
\* a FEN header value: a position with black to move
FenBlackToMove == "blackpos"

\* new Chess(fen) for a FEN string; chess.fen() of an instance is the
\* instance's position itself
Chess(fen) == <<fen>>

\* chess.turn()
Turn(pos) ==
  LET first == IF pos[1] = FenBlackToMove THEN "b" ELSE "w"
      other == IF first = "w" THEN "b" ELSE "w"
  IN IF (Len(pos) - 1) % 2 = 0 THEN first ELSE other

\* move texts: the canonical ones, which the engine accepts in strict
\* mode; "na", which it accepts in sloppy mode only, as "Na"; any other
\* text ("Zz") it rejects in both
StrictTexts == {"Na", "Nb"}
SloppyCanon(t) == IF t = "na" THEN "Na" ELSE t

\* chess.move(text, {sloppy}): the new position, or <<>> for null (the
\* instance is then unchanged)
ChessMove(pos, text, sloppy) ==
  IF text \in StrictTexts THEN Append(pos, text)
  ELSE IF sloppy /\ SloppyCanon(text) \in StrictTexts
    THEN Append(pos, SloppyCanon(text))
  ELSE <<>>

\* chess.move(t, {sloppy: false}) || chess.move(t, {sloppy: true})
Played(pos, text) ==
  IF ChessMove(pos, text, FALSE) # <<>> THEN ChessMove(pos, text, FALSE)
  ELSE ChessMove(pos, text, TRUE)

\* String.prototype.toUpperCase / toLowerCase, character by character over
\* the letters a-z and A-Z; any other character is kept
LowerLetters == "abcdefghijklmnopqrstuvwxyz"
UpperLetters == "ABCDEFGHIJKLMNOPQRSTUVWXYZ"

\* the character of the alphabet to at the place c has in the alphabet from
FoldChar(c, from, to) ==
  IF \E i \in 1..Len(from) : SubSeq(from, i, i) = c
    THEN LET i == CHOOSE i \in 1..Len(from) : SubSeq(from, i, i) = c
         IN SubSeq(to, i, i)
    ELSE c

RECURSIVE FoldCase(_, _, _)
FoldCase(s, from, to) ==
  IF Len(s) = 0 THEN ""
  ELSE FoldChar(SubSeq(s, 1, 1), from, to)
         \o FoldCase(SubSeq(s, 2, Len(s)), from, to)

ToUpperCase(s) == FoldCase(s, LowerLetters, UpperLetters)
ToLowerCase(s) == FoldCase(s, UpperLetters, LowerLetters)

(***************************************************************************)
(* Linearization: dfOnGame / dfsOnGame                                     *)
(*                                                                         *)
(* The traversal is written over explicit arenas mo (Move objects) and ro  *)
(* (Rav objects) and threads the caches it writes as the record c, so that *)
(* a mutation can run it over the tree it has just edited.  A step returns *)
(* the caches and the position of the chess instance it was handed, which  *)
(* the code mutates in place.                                              *)
(***************************************************************************)
RECURSIVE dfsOnGame(_, _, _, _, _, _)
RECURSIVE dfsRavs(_, _, _, _, _, _)
RECURSIVE dfsMoves(_, _, _, _, _, _)

\* for (let ravMove of rav.moves) this.dfsOnGame(ravMove, rav, chess), and
\* for (let move of game.moves) this.dfsOnGame(move, game, chessGame)
dfsMoves(mo, ro, moves, parent, chessGame, c) ==
  IF moves = <<>> THEN [c |-> c, chessGame |-> chessGame]
  ELSE LET r == dfsOnGame(mo, ro, Head(moves), parent, chessGame, c)
       IN dfsMoves(mo, ro, Tail(moves), parent, r.chessGame, r.c)

\* for (let rav of move.ravs): every variation starts from a new instance at
\* chessGame.fen(), the position before move is played
dfsRavs(mo, ro, ravs, move, chessGame, c) ==
  IF ravs = <<>> THEN c
  ELSE LET rav == Head(ravs)
           c1 == [c EXCEPT !.ravParent = MapSet(@, rav, move)]
           newVarChessGame == chessGame
           r == dfsMoves(mo, ro, ro[rav].moves, rav, newVarChessGame, c1)
       IN dfsRavs(mo, ro, Tail(ravs), move, chessGame, r.c)

\* a traversal that lists a move after its variations
dfsOnGame_AfterVariations(mo, ro, move, parent, chessGame, c) ==
  LET c1 == [c EXCEPT !.moveParent = MapSet(@, move, parent)]
      c2 == dfsRavs(mo, ro, mo[move].ravs, move, chessGame, c1)
      played == Played(chessGame, mo[move].move)
      after == IF played # <<>> THEN played ELSE chessGame
      c3 == [c2 EXCEPT !.sortedMoves = Append(@, move),
                       !.moveFen = MapSet(@, move, after),
                       !.moveColor = MapSet(@, move,
                                       IF Turn(after) = "w" THEN "b" ELSE "w")]
  IN [c |-> c3, chessGame |-> after]

\* a traversal that starts over from the standard position at a move the
\* engine rejects
dfsOnGame_ResetsAtRejected(mo, ro, move, parent, chessGame, c) ==
  LET c1 == [c EXCEPT !.sortedMoves = Append(@, move),
                      !.moveParent = MapSet(@, move, parent)]
      c2 == dfsRavs(mo, ro, mo[move].ravs, move, chessGame, c1)
      played == Played(chessGame, mo[move].move)
      after == IF played # <<>> THEN played ELSE Chess(FEN_START_POSITION)
      c3 == [c2 EXCEPT !.moveFen = MapSet(@, move, after),
                       !.moveColor = MapSet(@, move,
                                       IF Turn(after) = "w" THEN "b" ELSE "w")]
  IN [c |-> c3, chessGame |-> after]

dfsOnGame(mo, ro, move, parent, chessGame, c) ==
  LET c1 == [c EXCEPT !.sortedMoves = Append(@, move),
                      !.moveParent = MapSet(@, move, parent)]
      c2 == dfsRavs(mo, ro, mo[move].ravs, move, chessGame, c1)
      \* move only after variations are processed
      played == Played(chessGame, mo[move].move)
      after == IF played # <<>> THEN played ELSE chessGame
      c3 == [c2 EXCEPT !.moveFen = MapSet(@, move, after),
                       !.moveColor = MapSet(@, move,
                                       IF Turn(after) = "w" THEN "b" ELSE "w")]
  IN [c |-> c3, chessGame |-> after]

\* headers.find(pred): the 1-based index of the first match, 0 if none
FindHeader(hs, name, upper) ==
  LET hit(i) == IF upper THEN ToUpperCase(hs[i].name) = name
                ELSE ToLowerCase(hs[i].name) = name
  IN IF \E i \in 1..Len(hs) : hit(i)
       THEN CHOOSE i \in 1..Len(hs) : hit(i) /\ \A j \in 1..(i - 1) : ~hit(j)
       ELSE 0

\* game.headers?.find((h) => h.name.toUpperCase() === "FEN")?.value
\*   || FEN_START_POSITION
dfStartFen(g) ==
  LET hs == g.headers.items
      i == IF g.headers.isNull THEN 0 ELSE FindHeader(hs, "FEN", TRUE)
  IN IF i = 0 \/ hs[i].value = "" THEN FEN_START_POSITION ELSE hs[i].value

\* the caches as dfOnGame finds them
Caches(sm, mp, rp, mf, mc) ==
  [sortedMoves |-> sm, moveParent |-> mp, ravParent |-> rp,
   moveFen |-> mf, moveColor |-> mc]

\* a rebuild that does not empty sortedMoves first
dfOnGame_KeepsOrder(mo, ro, g, c) ==
  dfsMoves(mo, ro, g.moves, GameRoot, Chess(dfStartFen(g)), c).c

\* dfOnGame: sortedMoves is emptied, the four maps are written over
dfOnGame(mo, ro, g, c) ==
  dfsMoves(mo, ro, g.moves, GameRoot, Chess(dfStartFen(g)),
           [c EXCEPT !.sortedMoves = <<>>]).c

(***************************************************************************)
(* Serializer: regeneratePGN / formatMoves (src/utils.ts)                  *)
(***************************************************************************)
\* `${move.move_number}`
NumberText(n) == IF n = NaN THEN "NaN" ELSE ToString(n)

RECURSIVE formatMoves(_, _, _, _)
RECURSIVE formatParts(_, _, _, _)
RECURSIVE formatRavs(_, _, _, _)

WrapAll(texts) == [i \in 1..Len(texts) |-> "{" \o texts[i] \o "}"]

\* the parts one move pushes
formatParts(mo, ro, moves, mc) ==
  IF moves = <<>> THEN <<>>
  ELSE LET move == Head(moves)
           m == mo[move]
           number ==
             IF m.move_number # Undefined
               THEN << NumberText(m.move_number) \o "."
                       \o (IF MapHas(mc, move) /\ mc[move] = "b" THEN ".." ELSE "") >>
               ELSE <<>>
       IN number \o <<m.move>> \o WrapAll(m.comments)
          \o formatRavs(mo, ro, m.ravs, mc)
          \o formatParts(mo, ro, Tail(moves), mc)

\* variations with the result after the closing parenthesis
formatRavs_ResultOutside(mo, ro, ravs, mc) ==
  IF ravs = <<>> THEN <<>>
  ELSE LET rav == ro[Head(ravs)]
           ravMoves == formatMoves(mo, ro, rav.moves, mc)
           ravResult == IF rav.result # "" THEN " " \o rav.result ELSE ""
       IN << "(" \o ravMoves \o ")" \o ravResult >>
          \o formatRavs(mo, ro, Tail(ravs), mc)

formatRavs(mo, ro, ravs, mc) ==
  IF ravs = <<>> THEN <<>>
  ELSE LET rav == ro[Head(ravs)]
           ravMoves == formatMoves(mo, ro, rav.moves, mc)
           ravResult == IF rav.result # "" THEN " " \o rav.result ELSE ""
       IN << "(" \o ravMoves \o ravResult \o ")" >>
          \o formatRavs(mo, ro, Tail(ravs), mc)

formatMoves(mo, ro, moves, mc) == Join(formatParts(mo, ro, moves, mc), " ")

HeaderLines(hs) ==
  [i \in 1..Len(hs) |-> "[" \o hs[i].name \o " \"" \o hs[i].value \o "\"]"]

regeneratePGN(mo, ro, g, mc) ==
  LET above == IF g.comments_above_header.isNull THEN <<>>
               ELSE WrapAll(g.comments_above_header.items) \o <<"">>
      heads == IF g.headers.isNull THEN <<>>
               ELSE HeaderLines(g.headers.items) \o <<"">>
      between == IF g.comments.isNull THEN <<>>
                 ELSE WrapAll(g.comments.items) \o <<"">>
      movesText == formatMoves(mo, ro, g.moves, mc)
      body == IF movesText # "" THEN <<movesText>> ELSE <<>>
  IN Join(above \o heads \o between \o body \o <<g.result>>, "\n")

(***************************************************************************)
(* Navigation and accessors (read the current state)                       *)
(***************************************************************************)
\* parentRav.moves for a container reference: the root's or a variation's
ContainerMoves(ro, g, parentRav) ==
  IF parentRav = GameRoot THEN g.moves ELSE ro[parentRav].moves

\* Map.get: undefined for an absent key
GetParent(mp, move) == IF MapHas(mp, move) THEN mp[move] ELSE NoRav
GetAnchor(rp, rav) == IF MapHas(rp, rav) THEN rp[rav] ELSE Undefined

\* a lookup that takes the order position for the array index
getMove_OffByOne(moveNumber) == At(sortedMoves, moveNumber)

\* getMove(moveNumber): this.sortedMoves[moveNumber - 1]
getMove(moveNumber) == At(sortedMoves, moveNumber - 1)

\* getMoveNumber(move): this.sortedMoves.indexOf(move) + 1
getMoveNumber(move) == IndexOf(sortedMoves, move) + 1

RECURSIVE nextMove(_)

\* a successor taken from the order index alone
nextMove_OrderSuccessor(move) ==
  IF move = Undefined
    THEN IF Len(sortedMoves) = 0 THEN Throw("No moves in game")
         ELSE Return(sortedMoves[1])
  ELSE IF \/ move = At(game.moves, Len(game.moves) - 1)
          \/ move = At(sortedMoves, Len(sortedMoves) - 1)
    THEN Return(move)
  ELSE Return(getMove(getMoveNumber(move) + 1))

\* a successor that stops at the anchor when a variation ends
nextMove_AnchorItself(move) ==
  IF move = Undefined
    THEN IF Len(sortedMoves) = 0 THEN Throw("No moves in game")
         ELSE Return(sortedMoves[1])
  ELSE IF \/ move = At(game.moves, Len(game.moves) - 1)
          \/ move = At(sortedMoves, Len(sortedMoves) - 1)
    THEN Return(move)
  ELSE
    LET parentRav == GetParent(moveParent, move)
        tempNextMove == getMove(getMoveNumber(move) + 1)
    IN IF parentRav # NoRav
         THEN LET moves == ContainerMoves(ravObjs, game, parentRav)
                  indexInParent == IndexOf(moves, move)
              IN IF indexInParent = Len(moves) - 1
                   THEN LET superParent == GetAnchor(ravParent, parentRav)
                        IN IF superParent # Undefined
                             THEN Return(superParent)
                             ELSE Return(tempNextMove)
                   ELSE Return(At(moves, indexInParent + 1))
         ELSE Return(tempNextMove)

\* a successor without the test for the last element of the order index
nextMove_NoOrderLastCheck(move) ==
  IF move = Undefined
    THEN IF Len(sortedMoves) = 0 THEN Throw("No moves in game")
         ELSE Return(sortedMoves[1])
  ELSE IF move = At(game.moves, Len(game.moves) - 1)
    THEN Return(move)
  ELSE
    LET parentRav == GetParent(moveParent, move)
        tempNextMove == getMove(getMoveNumber(move) + 1)
    IN IF parentRav # NoRav
         THEN LET moves == ContainerMoves(ravObjs, game, parentRav)
                  indexInParent == IndexOf(moves, move)
              IN IF indexInParent = Len(moves) - 1
                   THEN LET superParent == GetAnchor(ravParent, parentRav)
                        IN IF superParent # Undefined
                             THEN nextMove(superParent)
                             ELSE Return(tempNextMove)
                   ELSE Return(At(moves, indexInParent + 1))
         ELSE Return(tempNextMove)

\* a successor without the test for the last Move of the top level
nextMove_NoTopLevelLastCheck(move) ==
  IF move = Undefined
    THEN IF Len(sortedMoves) = 0 THEN Throw("No moves in game")
         ELSE Return(sortedMoves[1])
  ELSE IF move = At(sortedMoves, Len(sortedMoves) - 1)
    THEN Return(move)
  ELSE
    LET parentRav == GetParent(moveParent, move)
        tempNextMove == getMove(getMoveNumber(move) + 1)
    IN IF parentRav # NoRav
         THEN LET moves == ContainerMoves(ravObjs, game, parentRav)
                  indexInParent == IndexOf(moves, move)
              IN IF indexInParent = Len(moves) - 1
                   THEN LET superParent == GetAnchor(ravParent, parentRav)
                        IN IF superParent # Undefined
                             THEN nextMove(superParent)
                             ELSE Return(tempNextMove)
                   ELSE Return(At(moves, indexInParent + 1))
         ELSE Return(tempNextMove)

\* nextMove(moveOrId) for a Move reference or undefined
nextMove(move) ==
  IF move = Undefined
    THEN IF Len(sortedMoves) = 0 THEN Throw("No moves in game")
         ELSE Return(sortedMoves[1])
  ELSE IF \/ move = At(game.moves, Len(game.moves) - 1)
          \/ move = At(sortedMoves, Len(sortedMoves) - 1)
    THEN Return(move)
  ELSE
    LET parentRav == GetParent(moveParent, move)
        tempNextMove == getMove(getMoveNumber(move) + 1)
    IN IF parentRav # NoRav
         THEN LET moves == ContainerMoves(ravObjs, game, parentRav)
                  indexInParent == IndexOf(moves, move)
              IN IF indexInParent = Len(moves) - 1
                   THEN LET superParent == GetAnchor(ravParent, parentRav)
                        IN IF superParent # Undefined
                             THEN nextMove(superParent)
                             ELSE Return(tempNextMove)
                   ELSE Return(At(moves, indexInParent + 1))
         ELSE Return(tempNextMove)

\* nextMove(moveOrId) for a number: resolved through getMove
nextMoveAt(moveNumber) == nextMove(getMove(moveNumber))

\* a test for a successor that looks at the end of the order index only
hasNextMove_OrderEnd(move) ==
  IF move = Undefined THEN TRUE
  ELSE move # At(sortedMoves, Len(sortedMoves) - 1)

\* hasNextMove(moveOrId) for a Move reference or undefined
hasNextMove(move) ==
  IF move = Undefined THEN TRUE ELSE nextMove(move) # Return(move)

hasNextMoveAt(moveNumber) == hasNextMove(getMove(moveNumber))

\* a predecessor taken from the order index alone
previousMove_OrderPredecessor(move) ==
  IF move = Undefined
    THEN IF Len(sortedMoves) = 0 THEN Throw("No moves in game")
         ELSE Throw("Invalid 'move' parameter while getting previous move")
  ELSE Return(getMove(getMoveNumber(move) - 1))

\* a predecessor that steps over the anchor to the move before it
previousMove_BeforeAnchor(move) ==
  IF move = Undefined
    THEN IF Len(sortedMoves) = 0 THEN Throw("No moves in game")
         ELSE Throw("Invalid 'move' parameter while getting previous move")
  ELSE
    LET currentMoveNumber == getMoveNumber(move)
        parentRav == GetParent(moveParent, move)
        tempPrevMove == getMove(currentMoveNumber - 1)
    IN IF currentMoveNumber = 0 THEN Return(Undefined)
       ELSE IF parentRav # NoRav
         THEN LET moves == ContainerMoves(ravObjs, game, parentRav)
                  indexInParent == IndexOf(moves, move)
              IN IF indexInParent = 0
                   THEN LET superParent == GetAnchor(ravParent, parentRav)
                            above == ContainerMoves(ravObjs, game,
                                       GetParent(moveParent, superParent))
                        IN IF superParent # Undefined
                             THEN Return(At(above, IndexOf(above, superParent) - 1))
                             ELSE Return(tempPrevMove)
                   ELSE Return(At(moves, indexInParent - 1))
         ELSE Return(tempPrevMove)

\* a predecessor that answers undefined where no Move is given
previousMove_AbsentIsStart(move) ==
  IF move = Undefined
    THEN IF Len(sortedMoves) = 0 THEN Throw("No moves in game")
         ELSE Return(Undefined)
  ELSE
    LET currentMoveNumber == getMoveNumber(move)
        parentRav == GetParent(moveParent, move)
        tempPrevMove == getMove(currentMoveNumber - 1)
    IN IF currentMoveNumber = 0 THEN Return(Undefined)
       ELSE IF parentRav # NoRav
         THEN LET moves == ContainerMoves(ravObjs, game, parentRav)
                  indexInParent == IndexOf(moves, move)
              IN IF indexInParent = 0
                   THEN LET superParent == GetAnchor(ravParent, parentRav)
                        IN IF superParent # Undefined
                             THEN Return(superParent)
                             ELSE Return(tempPrevMove)
                   ELSE Return(At(moves, indexInParent - 1))
         ELSE Return(tempPrevMove)

\* previousMove(moveOrId) for a Move reference or undefined
previousMove(move) ==
  IF move = Undefined
    THEN IF Len(sortedMoves) = 0 THEN Throw("No moves in game")
         ELSE Throw("Invalid 'move' parameter while getting previous move")
  ELSE
    LET currentMoveNumber == getMoveNumber(move)
        parentRav == GetParent(moveParent, move)
        tempPrevMove == getMove(currentMoveNumber - 1)
    IN IF currentMoveNumber = 0 THEN Return(Undefined)
       ELSE IF parentRav # NoRav
         THEN LET moves == ContainerMoves(ravObjs, game, parentRav)
                  indexInParent == IndexOf(moves, move)
              IN IF indexInParent = 0
                   THEN LET superParent == GetAnchor(ravParent, parentRav)
                        IN IF superParent # Undefined
                             THEN Return(superParent)
                             ELSE Return(tempPrevMove)
                   ELSE Return(At(moves, indexInParent - 1))
         ELSE Return(tempPrevMove)

previousMoveAt(moveNumber) == previousMove(getMove(moveNumber))

\* a last move taken from the order index, not from the top level
getLastMove_OrderLast ==
  IF Len(sortedMoves) = 0 THEN Throw("No moves in game")
  ELSE Return(At(sortedMoves, Len(sortedMoves) - 1))

\* getFirstMove()
getFirstMove ==
  IF Len(sortedMoves) = 0 THEN Throw("No moves in game")
  ELSE Return(sortedMoves[1])

\* getLastMove()
getLastMove ==
  IF Len(sortedMoves) = 0 THEN Throw("No moves in game")
  ELSE Return(At(game.moves, Len(game.moves) - 1))

\* getMoveFen(moveOrId) for a Move reference or undefined; val is a position
getMoveFen(move) ==
  IF move = Undefined \/ ~MapHas(moveFen, move)
    THEN [kind |-> "throw", val |-> <<>>,
          err |-> "Invalid 'move' parameter while getting fen"]
    ELSE [kind |-> "return", val |-> moveFen[move], err |-> ""]

\* null, where getParentRav returns it
NullRav == -2

\* getParentRav(moveOrId) for a Move reference or undefined; val is a
\* container reference.  The root is an object, hence truthy.
getParentRav(move) ==
  IF move = Undefined \/ ~MapHas(moveParent, move)
    THEN [kind |-> "throw", val |-> NoRav,
          err |-> "Invalid 'move' parameter while getting parent rav"]
    ELSE LET parentRav == moveParent[move]
         IN [kind |-> "return",
             val |-> IF parentRav # NoRav THEN parentRav ELSE NullRav,
             err |-> ""]

\* getMoveColor(moveOrId) for a Move reference or undefined; val is "w"/"b"
getMoveColor(move) ==
  IF move = Undefined \/ ~MapHas(moveColor, move)
    THEN [kind |-> "throw", val |-> "",
          err |-> "Invalid 'move' parameter while getting move color"]
    ELSE [kind |-> "return", val |-> moveColor[move], err |-> ""]

\* get headers()
headers == IF game.headers.isNull THEN <<>> ELSE game.headers.items

(***************************************************************************)
(* The tokenizer (pgn-parser), external: input texts and the trees it      *)
(* returns for them.  Move objects are numbered in the order the arena     *)
(* holds them, which is not the traversal order.                           *)
(***************************************************************************)
Mv(text, number, ravs, comments) ==
  [move |-> text, move_number |-> number, ravs |-> ravs, comments |-> comments]
Rv(moves, result) == [moves |-> moves, result |-> result]
Doc(above, hs, between, moves, result) ==
  [comments_above_header |-> above, headers |-> hs, comments |-> between,
   moves |-> moves, result |-> result]

Parsed ==
  { \* an empty game
    [pgn |-> "*",
     game |-> Doc(Null, Null, Null, <<>>, "*"),
     moveObjs |-> <<>>, ravObjs |-> <<>>],
    \* a mainline, its second move in a notation only sloppy mode accepts
    [pgn |-> "[Event \"T\"]\n\n1. Nb na 1-0",
     game |-> Doc(Null, Arr(<<[name |-> "Event", value |-> "T"]>>), Null,
                  <<1, 2>>, "1-0"),
     moveObjs |-> <<Mv("Nb", 1, <<>>, <<>>), Mv("na", Undefined, <<>>, <<>>)>>,
     ravObjs |-> <<>>],
    \* a variation of two moves on the second mainline move, which the
    \* mainline follows
    [pgn |-> "1. Na Nb {c} (1... Na 2. Nb) 2. Na *",
     game |-> Doc(Null, Null, Null, <<1, 2, 3>>, "*"),
     moveObjs |-> <<Mv("Na", 1, <<>>, <<>>), Mv("Nb", Undefined, <<1>>, <<"c">>),
                    Mv("Na", 2, <<>>, <<>>),
                    Mv("Na", 1, <<>>, <<>>), Mv("Nb", 2, <<>>, <<>>)>>,
     ravObjs |-> <<Rv(<<4, 5>>, "")>>],
    \* a variation inside a variation, on the last mainline move
    [pgn |-> "1. Na (1. Nb (1. Na 0-1)) *",
     game |-> Doc(Null, Null, Null, <<1>>, "*"),
     moveObjs |-> <<Mv("Na", 1, <<1>>, <<>>), Mv("Nb", 1, <<2>>, <<>>),
                    Mv("Na", 1, <<>>, <<>>)>>,
     ravObjs |-> <<Rv(<<2>>, ""), Rv(<<3>>, "0-1")>>],
    \* a start position from a FEN header, and a move the engine rejects
    [pgn |-> "{a}\n\n[fEN \"blackpos\"]\n\n{b}\n\n1... Na 2. Zz Nb *",
     game |-> Doc(Arr(<<"a">>),
                  Arr(<<[name |-> "fEN", value |-> FenBlackToMove]>>),
                  Arr(<<"b">>), <<1, 2, 3>>, "*"),
     moveObjs |-> <<Mv("Na", 1, <<>>, <<>>), Mv("Zz", 2, <<>>, <<>>),
                    Mv("Nb", Undefined, <<>>, <<>>)>>,
     ravObjs |-> <<>>] }

(***************************************************************************)
(* constructor                                                             *)
(***************************************************************************)
Init ==
  \E p \in Parsed :
    LET c == dfOnGame(p.moveObjs, p.ravObjs, p.game,
                      Caches(<<>>, EmptyMap, EmptyMap, EmptyMap, EmptyMap))
    IN /\ rawPGN = p.pgn
       /\ game = p.game
       /\ moveObjs = p.moveObjs
       /\ ravObjs = p.ravObjs
       /\ sortedMoves = c.sortedMoves
       /\ moveParent = c.moveParent
       /\ ravParent = c.ravParent
       /\ moveFen = c.moveFen
       /\ moveColor = c.moveColor
       /\ ret = [op |-> "constructor", kind |-> "return", val |-> Undefined,
                 err |-> ""]

(***************************************************************************)
(* pushMove                                                                *)
(***************************************************************************)
\* ret is the outcome of the last call that may write: the constructor,
\* pushMove or deleteMove.
\* What a call that throws leaves behind: the error, and nothing else changed
Fails(op, msg) ==
  /\ ret' = [op |-> op, kind |-> "throw", val |-> Undefined, err |-> msg]
  /\ UNCHANGED <<rawPGN, game, moveObjs, ravObjs,
                 sortedMoves, moveFen, moveParent, ravParent, moveColor>>

\* a mutation that leaves the caches as the call edited them, without the
\* pass over the tree
Rebuilt_NoLinearization(op, val, g, mo, ro, mp, rp, mf, mc) ==
  /\ game' = g
  /\ moveObjs' = mo
  /\ ravObjs' = ro
  /\ rawPGN' = regeneratePGN(mo, ro, g, mc)
  /\ sortedMoves' = sortedMoves
  /\ moveParent' = mp
  /\ ravParent' = rp
  /\ moveFen' = mf
  /\ moveColor' = mc
  /\ ret' = [op |-> op, kind |-> "return", val |-> val, err |-> ""]

\* a mutation that rebuilds the caches and leaves the rendering as it was
Rebuilt_StaleText(op, val, g, mo, ro, mp, rp, mf, mc) ==
  LET c == dfOnGame(mo, ro, g, Caches(sortedMoves, mp, rp, mf, mc))
  IN /\ game' = g
     /\ moveObjs' = mo
     /\ ravObjs' = ro
     /\ rawPGN' = rawPGN
     /\ sortedMoves' = c.sortedMoves
     /\ moveParent' = c.moveParent
     /\ ravParent' = c.ravParent
     /\ moveFen' = c.moveFen
     /\ moveColor' = c.moveColor
     /\ ret' = [op |-> op, kind |-> "return", val |-> val, err |-> ""]

\* what a mutation that went through leaves behind: the edited tree, the
\* rendering made of it with the colors known before the rebuild, and the
\* caches dfOnGame rebuilds from the maps as edited
Rebuilt(op, val, g, mo, ro, mp, rp, mf, mc) ==
  LET c == dfOnGame(mo, ro, g, Caches(sortedMoves, mp, rp, mf, mc))
  IN /\ game' = g
     /\ moveObjs' = mo
     /\ ravObjs' = ro
     /\ rawPGN' = regeneratePGN(mo, ro, g, mc)
     /\ sortedMoves' = c.sortedMoves
     /\ moveParent' = c.moveParent
     /\ ravParent' = c.ravParent
     /\ moveFen' = c.moveFen
     /\ moveColor' = c.moveColor
     /\ ret' = [op |-> op, kind |-> "return", val |-> val, err |-> ""]

\* current.move_number + 1
PlusOne(n) == IF n = Undefined \/ n = NaN THEN NaN ELSE n + 1

\* step 1 with moveId === 0: the start position pushMove plays from
pushStartFen ==
  LET i == FindHeader(headers, "fen", FALSE)
  IN IF i # 0 THEN headers[i].value ELSE FEN_START_POSITION

\* a push that puts the Move into the container twice
PushInto_Twice(g, ro, parentRav, moveObj) ==
  IF parentRav = GameRoot
    THEN [g |-> [g EXCEPT !.moves = Append(Append(@, moveObj), moveObj)], ro |-> ro]
    ELSE [g |-> g,
          ro |-> [ro EXCEPT ![parentRav].moves = Append(Append(@, moveObj), moveObj)]]

\* parentRav.moves.push(moveObj)
PushInto(g, ro, parentRav, moveObj) ==
  IF parentRav = GameRoot
    THEN [g |-> [g EXCEPT !.moves = Append(@, moveObj)], ro |-> ro]
    ELSE [g |-> g, ro |-> [ro EXCEPT ![parentRav].moves = Append(@, moveObj)]]

\* steps 3 to 5 with the new variation attached to the anchor itself, not to
\* the Move that follows it
pushPlayed_BranchOnCurrent(current, parentRav, chess, result) ==
  LET san == chess[Len(chess)]
      nextColor == IF Turn(chess) = "w" THEN "b" ELSE "w"
      moveObj == Len(moveObjs) + 1
      number == IF current # Undefined
                  THEN IF getMoveColor(current).val = "w"
                         THEN moveObjs[current].move_number
                         ELSE PlusOne(moveObjs[current].move_number)
                  ELSE 1
      mo1 == Append(moveObjs, Mv(san, number, <<>>, <<>>))
      moves == ContainerMoves(ravObjs, game, parentRav)
      newRav == Len(ravObjs) + 1
      \* a new variation holding moveObj alone, attached to anchor
      branch(anchor) ==
        Rebuilt("pushMove", moveObj, game,
                [mo1 EXCEPT ![anchor].ravs = Append(@, newRav)],
                Append(ravObjs, Rv(<<moveObj>>, result)),
                MapSet(moveParent, moveObj, newRav),
                MapSet(ravParent, newRav, anchor),
                MapSet(moveFen, moveObj, chess),
                MapSet(moveColor, moveObj, nextColor))
      \* moveObj appended to parentRav
      continue ==
        LET t == PushInto(game, ravObjs, parentRav, moveObj)
        IN Rebuilt("pushMove", moveObj, t.g, mo1, t.ro,
                   MapSet(moveParent, moveObj, parentRav), ravParent,
                   MapSet(moveFen, moveObj, chess),
                   MapSet(moveColor, moveObj, nextColor))
  IN IF current = Undefined
       THEN LET first == At(moves, 0)
            IN IF first # Undefined THEN branch(first) ELSE continue
       ELSE LET parentVariation == At(moves, Len(moves) - 1) # current
                next == nextMove(current).val
                anchor == current
            IN IF parentVariation THEN branch(anchor) ELSE continue

\* steps 3 to 5 with a Move pushed at position 0 always appended to the top
\* level
pushPlayed_RootContinues(current, parentRav, chess, result) ==
  LET san == chess[Len(chess)]
      nextColor == IF Turn(chess) = "w" THEN "b" ELSE "w"
      moveObj == Len(moveObjs) + 1
      number == IF current # Undefined
                  THEN IF getMoveColor(current).val = "w"
                         THEN moveObjs[current].move_number
                         ELSE PlusOne(moveObjs[current].move_number)
                  ELSE 1
      mo1 == Append(moveObjs, Mv(san, number, <<>>, <<>>))
      moves == ContainerMoves(ravObjs, game, parentRav)
      newRav == Len(ravObjs) + 1
      \* a new variation holding moveObj alone, attached to anchor
      branch(anchor) ==
        Rebuilt("pushMove", moveObj, game,
                [mo1 EXCEPT ![anchor].ravs = Append(@, newRav)],
                Append(ravObjs, Rv(<<moveObj>>, result)),
                MapSet(moveParent, moveObj, newRav),
                MapSet(ravParent, newRav, anchor),
                MapSet(moveFen, moveObj, chess),
                MapSet(moveColor, moveObj, nextColor))
      \* moveObj appended to parentRav
      continue ==
        LET t == PushInto(game, ravObjs, parentRav, moveObj)
        IN Rebuilt("pushMove", moveObj, t.g, mo1, t.ro,
                   MapSet(moveParent, moveObj, parentRav), ravParent,
                   MapSet(moveFen, moveObj, chess),
                   MapSet(moveColor, moveObj, nextColor))
  IN IF current = Undefined
       THEN LET first == At(moves, 0)
            IN continue
       ELSE LET parentVariation == At(moves, Len(moves) - 1) # current
                next == nextMove(current).val
                anchor == IF next # Undefined THEN next ELSE current
            IN IF parentVariation THEN branch(anchor) ELSE continue

\* steps 3 to 5, once the engine has played the move: chess is the position
\* after it, current the anchor (Undefined for none), parentRav its container
pushPlayed(current, parentRav, chess, result) ==
  LET san == chess[Len(chess)]
      nextColor == IF Turn(chess) = "w" THEN "b" ELSE "w"
      moveObj == Len(moveObjs) + 1
      number == IF current # Undefined
                  THEN IF getMoveColor(current).val = "w"
                         THEN moveObjs[current].move_number
                         ELSE PlusOne(moveObjs[current].move_number)
                  ELSE 1
      mo1 == Append(moveObjs, Mv(san, number, <<>>, <<>>))
      moves == ContainerMoves(ravObjs, game, parentRav)
      newRav == Len(ravObjs) + 1
      \* a new variation holding moveObj alone, attached to anchor
      branch(anchor) ==
        Rebuilt("pushMove", moveObj, game,
                [mo1 EXCEPT ![anchor].ravs = Append(@, newRav)],
                Append(ravObjs, Rv(<<moveObj>>, result)),
                MapSet(moveParent, moveObj, newRav),
                MapSet(ravParent, newRav, anchor),
                MapSet(moveFen, moveObj, chess),
                MapSet(moveColor, moveObj, nextColor))
      \* moveObj appended to parentRav
      continue ==
        LET t == PushInto(game, ravObjs, parentRav, moveObj)
        IN Rebuilt("pushMove", moveObj, t.g, mo1, t.ro,
                   MapSet(moveParent, moveObj, parentRav), ravParent,
                   MapSet(moveFen, moveObj, chess),
                   MapSet(moveColor, moveObj, nextColor))
  IN IF current = Undefined
       THEN LET first == At(moves, 0)
            IN IF first # Undefined THEN branch(first) ELSE continue
       ELSE LET parentVariation == At(moves, Len(moves) - 1) # current
                next == nextMove(current).val
                anchor == IF next # Undefined THEN next ELSE current
            IN IF parentVariation THEN branch(anchor) ELSE continue

\* an insert that puts the candidate into the top level before the engine
\* has played it
pushMove_InsertsBeforePlaying(moveId, newMove, result) ==
  LET current == IF moveId = 0 THEN Undefined ELSE getMove(moveId)
      parentRav == IF current = Undefined THEN GameRoot
                   ELSE IF GetParent(moveParent, current) # NoRav
                     THEN moveParent[current] ELSE GameRoot
      fen == getMoveFen(current)
      chess == IF moveId = 0 THEN Chess(pushStartFen) ELSE fen.val
      played == Played(chess, newMove)
      moveObj == Len(moveObjs) + 1
  IN IF moveId # 0 /\ current = Undefined
       THEN Fails("pushMove", "Invalid moveId while pushing a new move!")
     ELSE IF moveId # 0 /\ fen.kind = "throw"
       THEN Fails("pushMove", fen.err)
     ELSE IF played = <<>>
       THEN /\ Len(moveObjs) < MaxMoves
            /\ moveObjs' = Append(moveObjs, Mv(newMove, 1, <<>>, <<>>))
            /\ game' = [game EXCEPT !.moves = Append(@, moveObj)]
            /\ ret' = [op |-> "pushMove", kind |-> "throw", val |-> Undefined,
                       err |-> "Invalid move"]
            /\ UNCHANGED <<rawPGN, ravObjs, sortedMoves, moveFen, moveParent,
                           ravParent, moveColor>>
     ELSE IF current # Undefined /\ getMoveColor(current).kind = "throw"
       THEN Fails("pushMove", getMoveColor(current).err)
     ELSE /\ Len(moveObjs) < MaxMoves
          /\ pushPlayed(current, parentRav, played, result)

pushMove(moveId, newMove, result) ==
  LET current == IF moveId = 0 THEN Undefined ELSE getMove(moveId)
      parentRav == IF current = Undefined THEN GameRoot
                   ELSE IF GetParent(moveParent, current) # NoRav
                     THEN moveParent[current] ELSE GameRoot
      fen == getMoveFen(current)
      chess == IF moveId = 0 THEN Chess(pushStartFen) ELSE fen.val
      played == Played(chess, newMove)
  IN IF moveId # 0 /\ current = Undefined
       THEN Fails("pushMove", "Invalid moveId while pushing a new move!")
     ELSE IF moveId # 0 /\ fen.kind = "throw"
       THEN Fails("pushMove", fen.err)
     ELSE IF played = <<>>
       THEN Fails("pushMove", "Invalid move")
     ELSE IF current # Undefined /\ getMoveColor(current).kind = "throw"
       THEN Fails("pushMove", getMoveColor(current).err)
     ELSE /\ Len(moveObjs) < MaxMoves
          /\ pushPlayed(current, parentRav, played, result)

(***************************************************************************)
(* deleteMove                                                              *)
(***************************************************************************)
RECURSIVE DirectRavs(_, _)
\* ravsToClean: the variations attached to the deleted moves themselves
DirectRavs(mo, deletedMoves) ==
  IF deletedMoves = <<>> THEN <<>>
  ELSE mo[Head(deletedMoves)].ravs \o DirectRavs(mo, Tail(deletedMoves))

RECURSIVE DeleteAll(_, _)
\* forEach(key => map.delete(key))
DeleteAll(m, keys) ==
  IF keys = <<>> THEN m ELSE DeleteAll(MapDelete(m, Head(keys)), Tail(keys))

\* a delete that takes the Move alone out of its container and leaves the
\* Moves after it
deleteMove_OnlyThatMove(moveId) ==
  LET move == getMove(moveId)
      parent == getParentRav(move)
      parentRav == parent.val
      moves == ContainerMoves(ravObjs, game, parentRav)
      index == IndexOf(moves, move)
      deletedMoves == <<move>>
      kept == SpliceKept(moves, index) \o SubSeq(moves, index + 2, Len(moves))
      g1 == IF parentRav = GameRoot THEN [game EXCEPT !.moves = kept] ELSE game
      ro1 == IF parentRav = GameRoot THEN ravObjs
             ELSE [ravObjs EXCEPT ![parentRav].moves = kept]
      ravsToClean == DirectRavs(moveObjs, deletedMoves)
  IN IF move = Undefined THEN Fails("deleteMove", "Invalid move")
     ELSE IF parent.kind = "throw" THEN Fails("deleteMove", parent.err)
     ELSE Rebuilt("deleteMove", Undefined, g1, moveObjs, ro1,
                  DeleteAll(moveParent, deletedMoves),
                  DeleteAll(ravParent, ravsToClean),
                  DeleteAll(moveFen, deletedMoves),
                  DeleteAll(moveColor, deletedMoves))

\* a delete that takes a position that resolves to no Move for the last
\* position of the order index
deleteMove_ClampsPosition(moveId) ==
  LET move == IF getMove(moveId) # Undefined THEN getMove(moveId)
              ELSE getMove(Len(sortedMoves))
      parent == getParentRav(move)
      parentRav == parent.val
      moves == ContainerMoves(ravObjs, game, parentRav)
      index == IndexOf(moves, move)
      deletedMoves == SpliceRemoved(moves, index)
      kept == SpliceKept(moves, index)
      g1 == IF parentRav = GameRoot THEN [game EXCEPT !.moves = kept] ELSE game
      ro1 == IF parentRav = GameRoot THEN ravObjs
             ELSE [ravObjs EXCEPT ![parentRav].moves = kept]
      ravsToClean == DirectRavs(moveObjs, deletedMoves)
  IN IF move = Undefined THEN Fails("deleteMove", "Invalid move")
     ELSE IF parent.kind = "throw" THEN Fails("deleteMove", parent.err)
     ELSE Rebuilt("deleteMove", Undefined, g1, moveObjs, ro1,
                  DeleteAll(moveParent, deletedMoves),
                  DeleteAll(ravParent, ravsToClean),
                  DeleteAll(moveFen, deletedMoves),
                  DeleteAll(moveColor, deletedMoves))

deleteMove(moveId) ==
  LET move == getMove(moveId)
      parent == getParentRav(move)
      parentRav == parent.val
      moves == ContainerMoves(ravObjs, game, parentRav)
      index == IndexOf(moves, move)
      deletedMoves == SpliceRemoved(moves, index)
      kept == SpliceKept(moves, index)
      g1 == IF parentRav = GameRoot THEN [game EXCEPT !.moves = kept] ELSE game
      ro1 == IF parentRav = GameRoot THEN ravObjs
             ELSE [ravObjs EXCEPT ![parentRav].moves = kept]
      ravsToClean == DirectRavs(moveObjs, deletedMoves)
  IN IF move = Undefined THEN Fails("deleteMove", "Invalid move")
     ELSE IF parent.kind = "throw" THEN Fails("deleteMove", parent.err)
     ELSE Rebuilt("deleteMove", Undefined, g1, moveObjs, ro1,
                  DeleteAll(moveParent, deletedMoves),
                  DeleteAll(ravParent, ravsToClean),
                  DeleteAll(moveFen, deletedMoves),
                  DeleteAll(moveColor, deletedMoves))

(***************************************************************************)
(* The calls a client makes                                                *)
(***************************************************************************)
\* result markers handed to pushMove: the default and another
Results == {"*", "1-0"}
\* order positions handed to pushMove and deleteMove: every one that
\* resolves, and the nearest that do not
MoveIds == (-1)..(Len(sortedMoves) + 1)

\* candidate moves handed to pushMove: one in canonical notation, one only
\* sloppy mode accepts, one the engine rejects
Candidates == {"Na", "na", "Zz"}

PushMove == \E moveId \in MoveIds, newMove \in Candidates, result \in Results :
              pushMove(moveId, newMove, result)

DeleteMove == \E moveId \in MoveIds : deleteMove(moveId)

Next == PushMove \/ DeleteMove

Spec == Init /\ [][Next]_vars

(***************************************************************************)
(* regeneratePGN called on its own (it is exported): documents as a caller *)
(* can build them, a section being null, an empty array or an array with   *)
(* elements, and a color map                                               *)
(***************************************************************************)
\* comments_above_header and comments: null, [], one comment
CommentSections == {Null, Arr(<<>>), Arr(<<"a">>)}
\* headers: null, [], one header
HeaderSections == {Null, Arr(<<>>), Arr(<<[name |-> "Event", value |-> "T"]>>)}

\* Move trees with their color maps
RenderTrees ==
  { \* no moves
    [moves |-> <<>>, moveObjs |-> <<>>, ravObjs |-> <<>>, moveColor |-> EmptyMap],
    \* a pair, the black move without a number
    [moves |-> <<1, 2>>,
     moveObjs |-> <<Mv("Na", 1, <<>>, <<>>), Mv("Nb", Undefined, <<>>, <<>>)>>,
     ravObjs |-> <<>>,
     moveColor |-> <<"w", "b">>],
    \* comments, two variations on one move, a numbered black move, a
    \* variation inside a variation, results inside variations
    [moves |-> <<1, 2, 3>>,
     moveObjs |-> <<Mv("Na", 1, <<>>, <<"c", "d">>),
                    Mv("Nb", Undefined, <<1, 2>>, <<>>),
                    Mv("Na", 2, <<>>, <<>>),
                    Mv("Na", 1, <<3>>, <<>>), Mv("Nb", 2, <<>>, <<"e">>),
                    Mv("Nb", 1, <<>>, <<>>),
                    Mv("Nb", 1, <<>>, <<>>)>>,
     ravObjs |-> <<Rv(<<4, 5>>, ""), Rv(<<7>>, "1/2-1/2"), Rv(<<6>>, "0-1")>>,
     moveColor |-> <<"w", "b", "w", "b", "w", "b", "b">>],
    \* a move without a color, variations without moves
    [moves |-> <<1>>,
     moveObjs |-> <<Mv("Na", 3, <<1, 2>>, <<>>)>>,
     ravObjs |-> <<Rv(<<>>, ""), Rv(<<>>, "1-0")>>,
     moveColor |-> EmptyMap] }

InitRender ==
  \E above \in CommentSections, hs \in HeaderSections,
     between \in CommentSections, t \in RenderTrees, result \in Results :
    /\ game = Doc(above, hs, between, t.moves, result)
    /\ moveObjs = t.moveObjs
    /\ ravObjs = t.ravObjs
    /\ moveColor = t.moveColor
    /\ rawPGN = ""
    /\ sortedMoves = <<>>
    /\ moveFen = EmptyMap
    /\ moveParent = EmptyMap
    /\ ravParent = EmptyMap
    /\ ret = [op |-> "input", kind |-> "return", val |-> Undefined, err |-> ""]

\* regeneratePGN(parsedPGN, moveColor): rawPGN holds what it returns
Render ==
  /\ ret.op = "input"
  /\ rawPGN' = regeneratePGN(moveObjs, ravObjs, game, moveColor)
  /\ ret' = [ret EXCEPT !.op = "regeneratePGN"]
  /\ UNCHANGED <<game, moveObjs, ravObjs, sortedMoves, moveFen, moveParent,
                 ravParent, moveColor>>

NextRender == Render

SpecRender == InitRender /\ [][NextRender]_vars

(***************************************************************************)
(* The tree as the data model describes it, read off the objects alone     *)
(* (no cache is consulted): the vocabulary of the properties below         *)
(***************************************************************************)
Range(s) == {s[i] : i \in 1..Len(s)}

RECURSIVE MovesBelow(_)
\* the Moves of a Move sequence and of everything attached below them
MovesBelow(moves) ==
  UNION { {moves[i]} \cup
          UNION { MovesBelow(ravObjs[r].moves) : r \in Range(moveObjs[moves[i]].ravs) }
        : i \in 1..Len(moves) }

RECURSIVE CountBelow(_)
\* how many Moves a Variation holds, nested ones included
CountBelow(rav) ==
  LET moves == ravObjs[rav].moves
      ravsOf(i) == moveObjs[moves[i]].ravs
      RECURSIVE Sum(_, _)
      Sum(rs, k) == IF k > Len(rs) THEN 0 ELSE CountBelow(rs[k]) + Sum(rs, k + 1)
      RECURSIVE Each(_)
      Each(i) == IF i > Len(moves) THEN 0 ELSE 1 + Sum(ravsOf(i), 1) + Each(i + 1)
  IN Each(1)

RECURSIVE CountFirst(_, _)
\* how many Moves the first k Variations attached to a Move hold
CountFirst(ravs, k) ==
  IF k = 0 THEN 0 ELSE CountBelow(ravs[k]) + CountFirst(ravs, k - 1)

TreeMoves == MovesBelow(game.moves)
TreeRavs == UNION { Range(moveObjs[m].ravs) : m \in TreeMoves }
TreeContainers == {GameRoot} \cup TreeRavs
MovesOf(container) == ContainerMoves(ravObjs, game, container)
\* the Container whose Move sequence holds m, and m's 1-based place in it
ContainerOf(m) == CHOOSE c \in TreeContainers : m \in Range(MovesOf(c))
PlaceOf(m) == CHOOSE i \in 1..Len(MovesOf(ContainerOf(m))) : MovesOf(ContainerOf(m))[i] = m
IsLastOfContainer(m) == PlaceOf(m) = Len(MovesOf(ContainerOf(m)))
\* the Move a Variation is attached to
AnchorOf(rav) == CHOOSE m \in TreeMoves : rav \in Range(moveObjs[m].ravs)
InVariation(m) == ContainerOf(m) # GameRoot
LastTopLevel == game.moves[Len(game.moves)]
LastInOrder == sortedMoves[Len(sortedMoves)]

RECURSIVE PositionBefore(_)
\* the position a Move is played from: the cached position of the Move
\* before it in its Container; for the first Move of the top level the
\* start position, for the first Move of a Variation the position its
\* anchor is played from
PositionBefore(m) ==
  IF PlaceOf(m) > 1 THEN moveFen[MovesOf(ContainerOf(m))[PlaceOf(m) - 1]]
  ELSE IF ContainerOf(m) = GameRoot THEN Chess(dfStartFen(game))
  ELSE PositionBefore(AnchorOf(ContainerOf(m)))

(***************************************************************************)
(* The rendered move text as the tokenizer reads it.  A token is what      *)
(* formatMoves emits as a unit: text is the characters, val the move text  *)
(* or comment inside, n the number of a move number token.                 *)
(***************************************************************************)
Token(kind, text, val, n) == [kind |-> kind, text |-> text, val |-> val, n |-> n]

RECURSIVE MoveTokens(_, _, _, _)
RECURSIVE RavTokens(_, _, _, _)

\* the tokens of the Variations attached to one Move
RavTokens(mo, ro, ravs, mc) ==
  IF ravs = <<>> THEN <<>>
  ELSE LET rav == ro[Head(ravs)]
       IN <<Token("open", "(", "", 0)>>
          \o MoveTokens(mo, ro, rav.moves, mc)
          \o (IF rav.result # "" THEN <<Token("result", rav.result, rav.result, 0)>>
              ELSE <<>>)
          \o <<Token("close", ")", "", 0)>>
          \o RavTokens(mo, ro, Tail(ravs), mc)

\* the tokens of a Move sequence
MoveTokens(mo, ro, moves, mc) ==
  IF moves = <<>> THEN <<>>
  ELSE LET move == Head(moves)
           m == mo[move]
           number ==
             IF m.move_number # Undefined
               THEN <<Token("number",
                            NumberText(m.move_number) \o "."
                              \o (IF MapHas(mc, move) /\ mc[move] = "b" THEN ".." ELSE ""),
                            "", m.move_number)>>
               ELSE <<>>
           comments == [i \in 1..Len(m.comments) |->
                          Token("comment", "{" \o m.comments[i] \o "}", m.comments[i], 0)]
       IN number \o <<Token("move", m.move, m.move, 0)>> \o comments
          \o RavTokens(mo, ro, m.ravs, mc)
          \o MoveTokens(mo, ro, Tail(moves), mc)

RECURSIVE TokenText(_)
\* the characters of a token sequence: single spaces between tokens, none
\* after an opening and none before a closing parenthesis, the result of a
\* Variation always after a space
TokenText(ts) ==
  IF ts = <<>> THEN ""
  ELSE IF Len(ts) = 1 THEN ts[1].text
  ELSE LET sep == IF ts[2].kind = "close" THEN ""
                  ELSE IF ts[1].kind = "open" /\ ts[2].kind # "result" THEN ""
                  ELSE " "
       IN ts[1].text \o sep \o TokenText(Tail(ts))

\* the tokenizer (pgn-parser, external) on move text:
\*   movetext := move+    move := number? san comment* rav*
\*   rav := "(" movetext result? ")"
\* a move number is digits and dots.  A parse yields the Move and Variation
\* objects it created; ok is FALSE for a syntax error.
ParseError ==
  [ok |-> FALSE, i |-> 0, moves |-> <<>>, ravs |-> <<>>, mo |-> <<>>, ro |-> <<>>]

RECURSIVE CommentsFrom(_, _)
\* the comments that start at token i
CommentsFrom(ts, i) ==
  IF i <= Len(ts) /\ ts[i].kind = "comment"
    THEN <<ts[i].val>> \o CommentsFrom(ts, i + 1)
    ELSE <<>>

RECURSIVE ParseMoves(_, _, _, _)
RECURSIVE ParseRavs(_, _, _, _)

\* rav*, from token i
ParseRavs(ts, i, mo, ro) ==
  IF i > Len(ts) \/ ts[i].kind # "open"
    THEN [ok |-> TRUE, i |-> i, moves |-> <<>>, ravs |-> <<>>, mo |-> mo, ro |-> ro]
  ELSE LET inner == ParseMoves(ts, i + 1, mo, ro)
           j == inner.i
           hasResult == j <= Len(ts) /\ ts[j].kind = "result"
           k == IF hasResult THEN j + 1 ELSE j
       IN IF ~inner.ok THEN ParseError
          ELSE IF inner.moves = <<>> \/ k > Len(ts) \/ ts[k].kind # "close"
            THEN ParseError
          ELSE LET ro1 == Append(inner.ro,
                                 Rv(inner.moves, IF hasResult THEN ts[j].val ELSE ""))
                   rest == ParseRavs(ts, k + 1, inner.mo, ro1)
               IN IF ~rest.ok THEN ParseError
                  ELSE [rest EXCEPT !.ravs = <<Len(ro1)>> \o @]

\* move*, from token i
ParseMoves(ts, i, mo, ro) ==
  IF i > Len(ts) \/ ts[i].kind \notin {"number", "move"}
    THEN [ok |-> TRUE, i |-> i, moves |-> <<>>, ravs |-> <<>>, mo |-> mo, ro |-> ro]
  ELSE LET hasNumber == ts[i].kind = "number"
           j == IF hasNumber THEN i + 1 ELSE i
       IN IF hasNumber /\ ts[i].n = NaN THEN ParseError
          ELSE IF j > Len(ts) \/ ts[j].kind # "move" THEN ParseError
          ELSE LET comments == CommentsFrom(ts, j + 1)
                   rv == ParseRavs(ts, j + 1 + Len(comments), mo, ro)
               IN IF ~rv.ok THEN ParseError
                  ELSE LET mo1 == Append(rv.mo,
                                    Mv(ts[j].val,
                                       IF hasNumber THEN ts[i].n ELSE Undefined,
                                       rv.ravs, comments))
                           rest == ParseMoves(ts, rv.i, mo1, rv.ro)
                       IN IF ~rest.ok THEN ParseError
                          ELSE [rest EXCEPT !.moves = <<Len(mo1)>> \o @,
                                            !.ravs = <<>>]

\* the whole move text must be consumed
Tokenize(ts) ==
  LET r == ParseMoves(ts, 1, <<>>, <<>>)
  IN IF r.ok /\ r.i = Len(ts) + 1 THEN r ELSE ParseError

\* the position the engine is in after a text is offered to it at P: the
\* one the move leads to, P itself when the move is rejected in both modes
EngineStep(P, text) == IF Played(P, text) # <<>> THEN Played(P, text) ELSE P

RECURSIVE ReplayBefore(_)
\* the position a Move of the tree is played from, replayed from the start
\* position through the tree (no cache is consulted)
ReplayBefore(m) ==
  IF PlaceOf(m) > 1
    THEN LET before == MovesOf(ContainerOf(m))[PlaceOf(m) - 1]
         IN EngineStep(ReplayBefore(before), moveObjs[before].move)
  ELSE IF ContainerOf(m) = GameRoot THEN Chess(dfStartFen(game))
  ELSE ReplayBefore(AnchorOf(ContainerOf(m)))

(***************************************************************************)
(* Properties                                                              *)
(***************************************************************************)

\* C1: in every state (after construction, and after any pushMove or
\* deleteMove, whether it returned or threw) every Move of the tree occurs
\* exactly once in sortedMoves, its getMoveNumber lies between 1 and the
\* number of Moves of the tree, and getMove(getMoveNumber(m)) is m.
C1_OrderIndexTotal ==
  \A m \in TreeMoves :
    /\ Cardinality({i \in 1..Len(sortedMoves) : sortedMoves[i] = m}) = 1
    /\ getMoveNumber(m) \in 1..Cardinality(TreeMoves)
    /\ getMove(getMoveNumber(m)) = m

\* a delete has gone through, moves were removed, and what is left still
\* holds a variation inside a variation
C1_Witness ==
  /\ ret.op = "deleteMove" /\ ret.kind = "return"
  /\ Cardinality(TreeMoves) < Len(moveObjs)
  /\ \E m \in TreeMoves :
       /\ InVariation(m)
       /\ InVariation(AnchorOf(ContainerOf(m)))
       /\ getMove(getMoveNumber(m)) = m

\* C2: sortedMoves is the pre-order listing of the tree.  The first Move of
\* the top level comes first; for every Move m at position p, the first Move
\* of its k-th Variation is at p + 1 + (the Moves held by its Variations
\* 1..k-1), and the Move after m in m's Container is at p + 1 + (the Moves
\* held by all its Variations).
C2_PreOrder ==
  /\ game.moves # <<>> => getMoveNumber(game.moves[1]) = 1
  /\ \A m \in TreeMoves :
       LET ravs == moveObjs[m].ravs
           p == getMoveNumber(m)
           C == MovesOf(ContainerOf(m))
       IN /\ \A k \in 1..Len(ravs) :
               ravObjs[ravs[k]].moves # <<>> =>
                 getMoveNumber(ravObjs[ravs[k]].moves[1])
                   = p + 1 + CountFirst(ravs, k - 1)
          /\ ~IsLastOfContainer(m) =>
               getMoveNumber(C[PlaceOf(m) + 1])
                 = p + 1 + CountFirst(ravs, Len(ravs))

\* pushMove has gone through, and a Move with a Variation of two Moves is
\* followed in its Container by a Move, listed after the Variation's
C2_Witness ==
  /\ ret.op = "pushMove" /\ ret.kind = "return"
  /\ \E m \in TreeMoves :
       /\ Len(moveObjs[m].ravs) >= 1
       /\ CountBelow(moveObjs[m].ravs[1]) >= 2
       /\ ~IsLastOfContainer(m)
       /\ getMoveNumber(MovesOf(ContainerOf(m))[PlaceOf(m) + 1])
            = getMoveNumber(m) + 3

\* the first Move of a Variation is cached with the position reached by
\* playing it from the position its anchor is played from, not from the
\* position after the anchor
C3_BranchPosition ==
  \A v \in TreeRavs :
    ravObjs[v].moves # <<>> =>
      LET a == AnchorOf(v)
          f == ravObjs[v].moves[1]
          before == PositionBefore(a)
          played == Played(before, moveObjs[f].move)
      IN played # <<>> =>
           /\ moveFen[f] = played
           /\ Played(before, moveObjs[a].move) # <<>> =>
                moveFen[f] # Played(moveFen[a], moveObjs[f].move)

\* the first Move of a Variation has the color of the Variation's anchor
C3_BranchColor ==
  \A v \in TreeRavs :
    ravObjs[v].moves # <<>> =>
      getMoveColor(ravObjs[v].moves[1]) = getMoveColor(AnchorOf(v))

\* C3: for every Variation v attached to an anchor Move a, the cached
\* position of v's first Move is the result of playing it from the position
\* before a (never from the position after a), so that all Variations of a
\* branch from the same position, and v's first Move has the color of a.
C3_VariationBranchesBeforeAnchor == C3_BranchPosition /\ C3_BranchColor

\* C4: for every Move m that is not the last Move of its Container, nextMove
\* (by reference and by order position) returns the Move that follows m in
\* that Container, also when the Move after m in sortedMoves is a
\* Variation's.
C4_NextWithinContainer ==
  \A m \in TreeMoves :
    ~IsLastOfContainer(m) =>
      /\ nextMove(m) = Return(MovesOf(ContainerOf(m))[PlaceOf(m) + 1])
      /\ nextMoveAt(getMoveNumber(m)) = nextMove(m)

\* a Move inside a Variation is followed there by another, and the Move
\* listed after it in sortedMoves is that of a Variation attached to it
C4_Witness ==
  \E m \in TreeMoves :
    /\ InVariation(m)
    /\ ~IsLastOfContainer(m)
    /\ moveObjs[m].ravs # <<>>
    /\ getMove(getMoveNumber(m) + 1) # MovesOf(ContainerOf(m))[PlaceOf(m) + 1]
    /\ nextMove(m).val = MovesOf(ContainerOf(m))[PlaceOf(m) + 1]

\* C5 as stated: for every Move m that is the last Move of a Variation with
\* anchor a, nextMove(m) is nextMove(a).
C5_NextAtVariationEnd ==
  \A m \in TreeMoves :
    InVariation(m) /\ IsLastOfContainer(m) =>
      nextMove(m) = nextMove(AnchorOf(ContainerOf(m)))

\* C5, amended: for every Move m that is the last Move of a Variation with
\* anchor a and is not the last element of sortedMoves, nextMove(m) is
\* nextMove(a); the last element of sortedMoves is its own successor.
C5_NextAtVariationEndAmended ==
  \A m \in TreeMoves :
    InVariation(m) /\ IsLastOfContainer(m) =>
      IF m = LastInOrder THEN nextMove(m) = Return(m)
      ELSE nextMove(m) = nextMove(AnchorOf(ContainerOf(m)))

\* a Variation inside a Variation ends, its anchor ends the enclosing
\* Variation, and the successor is found two levels up, on the top level
C5_Witness ==
  \E m \in TreeMoves :
    /\ InVariation(m) /\ IsLastOfContainer(m) /\ m # LastInOrder
    /\ LET a == AnchorOf(ContainerOf(m))
       IN /\ InVariation(a) /\ IsLastOfContainer(a)
          /\ nextMove(m) = nextMove(a)
          /\ nextMove(m).val \in Range(game.moves)
          /\ nextMove(m).val # AnchorOf(ContainerOf(a))

\* C6: for every Move m of the tree, nextMove(m) is m itself, and
\* hasNextMove(m) is false, exactly when m is the last Move of the top level
\* or the last element of sortedMoves; hasNextMove(getLastMove()) is false
\* whenever the game has Moves, and hasNextMove(undefined) is true.
C6_NextIsSelfExactlyAtEnd ==
  /\ \A m \in TreeMoves :
       LET atEnd == m = LastTopLevel \/ m = LastInOrder
       IN /\ (nextMove(m) = Return(m)) <=> atEnd
          /\ hasNextMove(m) <=> ~atEnd
          /\ hasNextMoveAt(getMoveNumber(m)) <=> ~atEnd
  /\ TreeMoves # {} =>
       /\ getLastMove = Return(LastTopLevel)
       /\ ~hasNextMove(getLastMove.val)
  /\ hasNextMove(Undefined)

\* the last element of sortedMoves ends a Variation attached to the last
\* Move of the top level, which pushMove has just put there
C6_Witness ==
  /\ ret.op = "pushMove" /\ ret.kind = "return"
  /\ ret.val = LastInOrder
  /\ InVariation(LastInOrder)
  /\ LastInOrder # LastTopLevel
  /\ nextMove(LastInOrder) = Return(LastInOrder)
  /\ ~hasNextMove(LastInOrder)
  /\ hasNextMove(game.moves[1])

\* C7: previousMove(m) is the Move before m in m's Container when m is not
\* the first there; the anchor of m's Variation when m is the first Move of
\* a Variation; undefined when m is the first Move of the top level.
C7_Previous ==
  \A m \in TreeMoves :
    /\ previousMove(m) =
         Return(IF PlaceOf(m) > 1 THEN MovesOf(ContainerOf(m))[PlaceOf(m) - 1]
                ELSE IF InVariation(m) THEN AnchorOf(ContainerOf(m))
                ELSE Undefined)
    /\ previousMoveAt(getMoveNumber(m)) = previousMove(m)

\* the first Move of an anchor's second Variation steps back to the anchor,
\* which is neither listed right before it nor the first Move of its
\* Container
C7_Witness ==
  \E m \in TreeMoves :
    /\ InVariation(m) /\ PlaceOf(m) = 1
    /\ LET a == AnchorOf(ContainerOf(m))
       IN /\ previousMove(m) = Return(a)
          /\ getMove(getMoveNumber(m) - 1) # a
          /\ PlaceOf(a) > 1
          /\ previousMove(a).val # Undefined

\* C8 as stated: for every Move m that is neither the first nor the last
\* Move of a Variation (every top-level Move, every interior Move of a
\* Variation), previousMove(nextMove(m)) is m.
C8_PreviousOfNext ==
  \A m \in TreeMoves :
    ~(InVariation(m) /\ (PlaceOf(m) = 1 \/ IsLastOfContainer(m))) =>
      previousMove(nextMove(m).val) = Return(m)

\* C8, amended: the same for every such Move other than the last Move of
\* the top level (whose nextMove is itself).
C8_PreviousOfNextAmended ==
  \A m \in TreeMoves :
    /\ ~(InVariation(m) /\ (PlaceOf(m) = 1 \/ IsLastOfContainer(m)))
    /\ m # LastTopLevel
    => previousMove(nextMove(m).val) = Return(m)

\* pushMove has attached a Variation below the top level; a top-level Move
\* other than the last has a successor that is listed after the Moves of a
\* Variation, and stepping forward and back from it returns to it
C8_Witness ==
  /\ ret.op = "pushMove" /\ ret.kind = "return"
  /\ InVariation(ret.val)
  /\ \E m \in Range(game.moves) :
       /\ m # LastTopLevel
       /\ getMove(getMoveNumber(nextMove(m).val) - 1) # m
       /\ previousMove(nextMove(m).val) = Return(m)

\* C9: getParentRav(m) returns null for every Move m of the top level and
\* the containing Variation for every Move inside a Variation.
C9_ParentRavNullOnMainline ==
  \A m \in TreeMoves :
    /\ getParentRav(m).kind = "return"
    /\ getParentRav(m).val = IF InVariation(m) THEN ContainerOf(m) ELSE NullRav

\* C10 as stated: getMove(n) never returns the absent value for an n
\* outside 1..Len(sortedMoves).
C10_GetMoveOutOfRangeFails ==
  \A n \in MoveIds : n \notin 1..Len(sortedMoves) => getMove(n) # Undefined

\* C10, amended: getMove(n) returns undefined, and does not fail, for every
\* n outside 1..Len(sortedMoves) (0 and the length plus one included), and
\* the n-th element of sortedMoves, a Move of the tree, for every other n.
C10_GetMoveOutOfRangeUndefined ==
  \A n \in MoveIds :
    IF n \in 1..Len(sortedMoves)
      THEN getMove(n) = sortedMoves[n] /\ getMove(n) \in TreeMoves
      ELSE getMove(n) = Undefined

\* deleteMove has shortened sortedMoves; the positions around what is left
\* resolve to no Move, the last one that is left does
C10_Witness ==
  /\ ret.op = "deleteMove" /\ ret.kind = "return"
  /\ Len(sortedMoves) >= 2
  /\ getMove(0) = Undefined
  /\ getMove(Len(sortedMoves) + 1) = Undefined
  /\ getMove(Len(sortedMoves)) = LastInOrder

\* the order positions a client may hand to a reading call: every one that
\* resolves, and some on either side that do not
Positions == (-1)..(Len(sortedMoves) + 2)

\* C11: whenever the tree holds no Moves, getFirstMove(), getLastMove(),
\* nextMove(undefined), nextMove(n) and previousMove(n) for any order
\* position n each throw "No moves in game"; whenever it holds a Move,
\* getFirstMove() is the first element of sortedMoves, getLastMove() is the
\* last Move of the top-level Container, and nextMove(undefined) is
\* getFirstMove().
C11_EmptyGame ==
  /\ TreeMoves = {} =>
       /\ getFirstMove = Throw("No moves in game")
       /\ getLastMove = Throw("No moves in game")
       /\ nextMove(Undefined) = Throw("No moves in game")
       /\ \A n \in Positions :
            /\ nextMoveAt(n) = Throw("No moves in game")
            /\ previousMoveAt(n) = Throw("No moves in game")
  /\ TreeMoves # {} =>
       /\ getFirstMove = Return(At(sortedMoves, 0))
       /\ getFirstMove.val \in TreeMoves
       /\ getLastMove = Return(LastTopLevel)
       /\ nextMove(Undefined) = getFirstMove

\* a game that held Moves and a deleteMove emptied: every navigation call
\* throws "No moves in game"
C11_Witness ==
  /\ ret.op = "deleteMove" /\ ret.kind = "return"
  /\ TreeMoves = {}
  /\ Len(moveObjs) > 0
  /\ getFirstMove.kind = "throw"
  /\ nextMoveAt(1).kind = "throw"

\* C12: in a game that holds a Move, previousMove(undefined) and
\* previousMove(n) for every order position n that resolves to no Move throw
\* "Invalid 'move' parameter while getting previous move" and return nothing;
\* in a game that holds none they throw "No moves in game".
C12_PreviousOfAbsent ==
  LET absent == {previousMove(Undefined)} \cup
                {previousMoveAt(n) : n \in {k \in Positions : getMove(k) = Undefined}}
  IN \A r \in absent :
       /\ r.kind = "throw"
       /\ r.err = IF TreeMoves = {} THEN "No moves in game"
                  ELSE "Invalid 'move' parameter while getting previous move"

\* a game that holds Moves, after a pushMove: the positions 0 and length + 1
\* resolve to no Move
C12_Witness ==
  /\ ret.op = "pushMove" /\ ret.kind = "return"
  /\ Len(sortedMoves) >= 2
  /\ getMove(0) = Undefined
  /\ getMove(Len(sortedMoves) + 1) = Undefined
  /\ previousMoveAt(Len(sortedMoves) + 1).kind = "throw"

\* the candidate newMove is one the engine rejects, strict and sloppy, in
\* the position pushMove(moveId, ...) plays it from, or moveId is not 0 and
\* resolves to no Move
PushRejected(moveId, newMove) ==
  IF moveId = 0 THEN Played(Chess(dfStartFen(game)), newMove) = <<>>
  ELSE IF getMove(moveId) = Undefined THEN TRUE
  ELSE Played(moveFen[getMove(moveId)], newMove) = <<>>

\* C13: a pushMove whose candidate the engine rejects in both modes, or
\* whose moveId resolves to no Move, throws, and the tree, sortedMoves,
\* moveFen, moveParent, ravParent, moveColor and the rendering (pgn) are
\* exactly what they were before the call.
C13_PushMoveAtomic ==
  [][\A moveId \in MoveIds, newMove \in Candidates, result \in Results :
       (/\ ret'.op = "pushMove"
        /\ PushRejected(moveId, newMove)
        /\ pushMove(moveId, newMove, result))
         => /\ ret'.op = "pushMove" /\ ret'.kind = "throw"
            /\ UNCHANGED <<rawPGN, game, moveObjs, ravObjs, sortedMoves,
                           moveFen, moveParent, ravParent, moveColor>>]_vars

\* the engine has rejected a candidate offered to a game that holds a
\* variation
C13_Witness ==
  /\ ret.op = "pushMove" /\ ret.kind = "throw"
  /\ ret.err = "Invalid move"
  /\ TreeRavs # {}
  /\ \E n \in 0..Len(sortedMoves) : PushRejected(n, "Zz")

\* C14: a pushMove that returns, made at a moveId that resolves to a Move cur
\* of Container C: when cur is the last Move of C the new Move is appended to
\* C and no Variation is created; otherwise the Move sequence of C is
\* unchanged and one new Variation, holding the new Move alone and carrying
\* the given result, is appended to the Variations of the Move that follows
\* cur in C, which is nextMove(cur).  Nothing else of the tree changes.
C14_PushAtAnchor ==
  [][\A moveId \in MoveIds, newMove \in Candidates, result \in Results :
       (/\ moveId # 0
        /\ ret'.op = "pushMove" /\ ret'.kind = "return"
        /\ pushMove(moveId, newMove, result))
         => LET cur == getMove(moveId)
                C == ContainerOf(cur)
                n == ret'.val
            IN /\ n \notin TreeMoves
               /\ moveObjs'[n].ravs = <<>>
               /\ IF IsLastOfContainer(cur)
                    THEN /\ ContainerMoves(ravObjs', game', C) = Append(MovesOf(C), n)
                         /\ TreeRavs' = TreeRavs
                         /\ \A m \in TreeMoves : moveObjs'[m].ravs = moveObjs[m].ravs
                         /\ TreeMoves' = TreeMoves \cup {n}
                    ELSE LET f == MovesOf(C)[PlaceOf(cur) + 1]
                         IN /\ ContainerMoves(ravObjs', game', C) = MovesOf(C)
                            /\ nextMove(cur) = Return(f)
                            /\ \E r \in TreeRavs' \ TreeRavs :
                                 /\ TreeRavs' = TreeRavs \cup {r}
                                 /\ moveObjs'[f].ravs = Append(moveObjs[f].ravs, r)
                                 /\ ravObjs'[r] = Rv(<<n>>, result)
                            /\ \A m \in TreeMoves \ {f} :
                                 moveObjs'[m].ravs = moveObjs[m].ravs
                            /\ TreeMoves' = TreeMoves \cup {n}
               /\ \A r \in TreeRavs \ {C} : ravObjs'[r] = ravObjs[r]
               /\ C # GameRoot => game' = game]_vars

\* pushMove has just made a Variation with the result "1-0", holding the new
\* Move alone, on a Move inside a Variation that is the second of its
\* Container
C14_Witness ==
  /\ ret.op = "pushMove" /\ ret.kind = "return"
  /\ ret.val \in TreeMoves
  /\ InVariation(ret.val)
  /\ ravObjs[ContainerOf(ret.val)] = Rv(<<ret.val>>, "1-0")
  /\ LET f == AnchorOf(ContainerOf(ret.val))
     IN /\ InVariation(f)
        /\ PlaceOf(f) = 2

\* C15: a pushMove(0, ...) that returns has played the candidate from the
\* start position of the document (the value of the FEN header when there is
\* one, the standard initial position otherwise); when the top-level
\* Container was empty the new Move is now its only Move, otherwise the
\* top-level sequence is unchanged and one new Variation, holding the new
\* Move alone and carrying the given result, is attached to the first
\* top-level Move.
C15_PushAtStart ==
  [][\A newMove \in Candidates, result \in Results :
       (/\ ret'.op = "pushMove" /\ ret'.kind = "return"
        /\ pushMove(0, newMove, result))
         => LET n == ret'.val
                i == FindHeader(headers, "FEN", TRUE)
                start == Chess(IF i # 0 THEN headers[i].value
                               ELSE FEN_START_POSITION)
                played == Played(start, newMove)
            IN /\ played # <<>>
               /\ n \notin TreeMoves
               /\ moveObjs'[n].move = played[Len(played)]
               /\ moveObjs'[n].ravs = <<>>
               /\ moveFen'[n] = played
               /\ TreeMoves' = TreeMoves \cup {n}
               /\ IF game.moves = <<>>
                    THEN /\ game'.moves = <<n>>
                         /\ TreeRavs' = {}
                    ELSE LET f == game.moves[1]
                         IN /\ game'.moves = game.moves
                            /\ \E r \in TreeRavs' \ TreeRavs :
                                 /\ TreeRavs' = TreeRavs \cup {r}
                                 /\ moveObjs'[f].ravs = Append(moveObjs[f].ravs, r)
                                 /\ ravObjs'[r] = Rv(<<n>>, result)
                            /\ \A m \in TreeMoves \ {f} :
                                 moveObjs'[m].ravs = moveObjs[m].ravs
                            /\ \A r \in TreeRavs : ravObjs'[r] = ravObjs[r]]_vars

\* pushMove(0, ...) has just attached a Variation with the result "1-0" to
\* the first top-level Move of a game that starts from the position of its
\* FEN header, and the new Move was played from that position
C15_Witness ==
  /\ ret.op = "pushMove" /\ ret.kind = "return"
  /\ dfStartFen(game) = FenBlackToMove
  /\ Len(game.moves) >= 2
  /\ Len(moveObjs[game.moves[1]].ravs) = 1
  /\ LET r == moveObjs[game.moves[1]].ravs[1]
     IN /\ ravObjs[r] = Rv(<<ret.val>>, "1-0")
        /\ moveFen[ret.val] = <<FenBlackToMove, "Na">>

\* C16: the move_number of the Move a pushMove creates is a move number: 1
\* when there is no anchor (moveId 0); the anchor's move_number when the
\* anchor was played by white; the anchor's move_number plus one when it was
\* played by black.
C16_MoveNumberAssigned ==
  [][\A moveId \in MoveIds, newMove \in Candidates, result \in Results :
       (/\ ret'.op = "pushMove" /\ ret'.kind = "return"
        /\ pushMove(moveId, newMove, result))
         => LET number == moveObjs'[ret'.val].move_number
                cur == getMove(moveId)
            IN IF moveId = 0 THEN number = 1
               ELSE IF moveColor[cur] = "w"
                 THEN number = moveObjs[cur].move_number
                 ELSE /\ number # NaN
                      /\ moveObjs[cur].move_number # Undefined
                      /\ number = moveObjs[cur].move_number + 1]_vars

\* C17: after a pushMove that returned the Move n, sortedMoves is one longer
\* than before, every Move it held is still in it and in the same relative
\* order, n is in it, getMoveFen(n) is the position the engine produced when
\* it played the candidate from the cached position of the anchor (from the
\* start position for moveId 0), and getParentRav(n) is the Container that
\* holds n.
C17_PushPostconditions ==
  [][\A moveId \in MoveIds, newMove \in Candidates, result \in Results :
       (/\ ret'.op = "pushMove" /\ ret'.kind = "return"
        /\ pushMove(moveId, newMove, result))
         => LET n == ret'.val
                from == IF moveId = 0 THEN Chess(dfStartFen(game))
                        ELSE moveFen[getMove(moveId)]
                before == sortedMoves
            IN /\ Len(sortedMoves') = Len(before) + 1
               /\ \A i \in 1..Len(before) : IndexOf(sortedMoves', before[i]) >= 0
               /\ \A i, j \in 1..Len(before) :
                    i < j => IndexOf(sortedMoves', before[i])
                               < IndexOf(sortedMoves', before[j])
               /\ IndexOf(before, n) = -1
               /\ IndexOf(sortedMoves', n) >= 0
               /\ MapHas(moveFen', n)
               /\ moveFen'[n] = Played(from, newMove)
               /\ moveFen'[n] # <<>>
               /\ MapHas(moveParent', n)
               /\ \E c \in TreeContainers' :
                    /\ IndexOf(MovesOf(c)', n) >= 0
                    /\ moveParent'[n] = c]_vars

\* pushMove has just returned a Move placed in a new Variation in the middle
\* of the order index, its position cached
C17_Witness ==
  /\ ret.op = "pushMove" /\ ret.kind = "return"
  /\ getMoveNumber(ret.val) > 1
  /\ getMoveNumber(ret.val) < Len(sortedMoves)
  /\ getParentRav(ret.val) = [kind |-> "return", val |-> ContainerOf(ret.val), err |-> ""]
  /\ InVariation(ret.val)
  /\ getMoveFen(ret.val).kind = "return"
  /\ Len(getMoveFen(ret.val).val) >= 3

\* C18: a deleteMove that returns, made at the Move k of Container C at
\* place i, removes exactly the Moves of C from k on, with everything
\* attached below them; the Moves of C before k, the Variations attached to
\* them and every other Move stay in the tree with the cached position, the
\* container and the relative order they had; and for every surviving Move
\* of another Container nextMove and previousMove give what they gave before.
C18_DeleteFrame ==
  [][\A moveId \in MoveIds :
       (/\ ret'.op = "deleteMove" /\ ret'.kind = "return"
        /\ deleteMove(moveId))
         => LET k == getMove(moveId)
                C == ContainerOf(k)
                i == PlaceOf(k)
                gone == MovesBelow(SubSeq(MovesOf(C), i, Len(MovesOf(C))))
                kept == TreeMoves \ gone
                before == sortedMoves
            IN /\ TreeMoves' = kept
               /\ ContainerMoves(ravObjs', game', C) = SubSeq(MovesOf(C), 1, i - 1)
               /\ \A m \in kept :
                    /\ moveObjs'[m] = moveObjs[m]
                    /\ \A r \in Range(moveObjs[m].ravs) :
                         r # C => ravObjs'[r] = ravObjs[r]
                    /\ moveFen'[m] = moveFen[m]
                    /\ moveParent'[m] = moveParent[m]
                    /\ IndexOf(sortedMoves', m) >= 0
               /\ Len(sortedMoves') = Cardinality(kept)
               /\ \A a, b \in kept :
                    IndexOf(before, a) < IndexOf(before, b)
                      => IndexOf(sortedMoves', a) < IndexOf(sortedMoves', b)
               /\ \A m \in kept :
                    ContainerOf(m) # C
                      => /\ previousMove(m)' = previousMove(m)
                         /\ nextMove(m)' = nextMove(m)]_vars

\* C18 as amended: the same, with previousMove of every surviving Move of
\* another Container giving what it gave before, and nextMove giving what it
\* gave before for those that are not the last Move of a Variation (the
\* successor of the last Move of a Variation is that of its anchor, or the
\* Move itself once it is the last of the order index, and a delete
\* elsewhere can change it).
C18_DeleteFrameAmended ==
  [][\A moveId \in MoveIds :
       (/\ ret'.op = "deleteMove" /\ ret'.kind = "return"
        /\ deleteMove(moveId))
         => LET k == getMove(moveId)
                C == ContainerOf(k)
                i == PlaceOf(k)
                gone == MovesBelow(SubSeq(MovesOf(C), i, Len(MovesOf(C))))
                kept == TreeMoves \ gone
                before == sortedMoves
            IN /\ TreeMoves' = kept
               /\ ContainerMoves(ravObjs', game', C) = SubSeq(MovesOf(C), 1, i - 1)
               /\ \A m \in kept :
                    /\ moveObjs'[m] = moveObjs[m]
                    /\ \A r \in Range(moveObjs[m].ravs) :
                         r # C => ravObjs'[r] = ravObjs[r]
                    /\ moveFen'[m] = moveFen[m]
                    /\ moveParent'[m] = moveParent[m]
                    /\ IndexOf(sortedMoves', m) >= 0
               /\ Len(sortedMoves') = Cardinality(kept)
               /\ \A a, b \in kept :
                    IndexOf(before, a) < IndexOf(before, b)
                      => IndexOf(sortedMoves', a) < IndexOf(sortedMoves', b)
               /\ \A m \in kept :
                    ContainerOf(m) # C
                      => /\ previousMove(m)' = previousMove(m)
                         /\ (~(InVariation(m) /\ IsLastOfContainer(m)))
                              => nextMove(m)' = nextMove(m)]_vars

\* deleteMove has just removed the Moves that followed the anchor of a
\* Variation of two Moves: the Variation survives, its anchor now the last
\* top-level Move
C18_Witness ==
  /\ ret.op = "deleteMove" /\ ret.kind = "return"
  /\ Cardinality(TreeMoves) < Len(moveObjs)
  /\ Len(game.moves) >= 2
  /\ \E r \in TreeRavs :
       /\ AnchorOf(r) = LastTopLevel
       /\ Len(ravObjs[r].moves) >= 2
       /\ nextMove(ravObjs[r].moves[1]) = Return(ravObjs[r].moves[2])

\* C19: deleteMove at an order position that resolves to no Move (0, a
\* negative one, one beyond the length of sortedMoves, any position when the
\* game holds no Move) throws "Invalid move" and leaves the tree, every cache
\* and the rendering unchanged.
C19_DeleteUnresolved ==
  [][\A moveId \in MoveIds :
       (/\ ret'.op = "deleteMove"
        /\ getMove(moveId) = Undefined
        /\ deleteMove(moveId))
         => /\ ret' = [op |-> "deleteMove", kind |-> "throw",
                       val |-> Undefined, err |-> "Invalid move"]
            /\ UNCHANGED <<rawPGN, game, moveObjs, ravObjs, sortedMoves,
                           moveFen, moveParent, ravParent, moveColor>>]_vars

\* deleteMove has thrown in a game that still holds a Variation after an
\* earlier delete, and the positions -1, 0 and length + 1 resolve to no Move
C19_Witness ==
  /\ ret.op = "deleteMove" /\ ret.kind = "throw"
  /\ ret.err = "Invalid move"
  /\ TreeRavs # {}
  /\ Cardinality(TreeMoves) < Len(moveObjs)
  /\ \A n \in {-1, 0, Len(sortedMoves) + 1} : getMove(n) = Undefined

\* C20: in every state (after construction and after any pushMove or
\* deleteMove) the Moves with an entry in moveFen, in moveParent and in
\* moveColor are exactly the Moves of the tree, so getMoveFen, getParentRav
\* and getMoveColor throw for every Move ever created that is no longer in
\* the tree, those inside Variations attached to deleted Moves included.
C20_CachesMatchTree ==
  /\ DOMAIN moveFen = TreeMoves
  /\ DOMAIN moveParent = TreeMoves
  /\ DOMAIN moveColor = TreeMoves
  /\ \A m \in (1..Len(moveObjs)) \ TreeMoves :
       /\ getMoveFen(m).kind = "throw"
       /\ getParentRav(m).kind = "throw"
       /\ getMoveColor(m).kind = "throw"

\* C21: in every state (every tree that pushMove and deleteMove calls can
\* produce), rendering the tree, tokenizing the rendered move text again and
\* linearizing the tree the tokenizer returns gives an order index of the
\* same length, its move texts in the same order.
C21_RoundTrip ==
  LET ts == MoveTokens(moveObjs, ravObjs, game.moves, moveColor)
      t == Tokenize(ts)
  IN /\ t.ok
     /\ LET c == dfOnGame(t.mo, t.ro, [game EXCEPT !.moves = t.moves],
                          Caches(<<>>, EmptyMap, EmptyMap, EmptyMap, EmptyMap))
        IN /\ Len(c.sortedMoves) = Len(sortedMoves)
           /\ \A i \in 1..Len(sortedMoves) :
                t.mo[c.sortedMoves[i]].move = moveObjs[sortedMoves[i]].move

\* C22: pgn is the input text for as long as no pushMove or deleteMove has
\* returned; after every pushMove or deleteMove that returns it is
\* regeneratePGN of the tree as that call left it, with the colors of the
\* Moves then in the tree; a call that throws does not change it (reading
\* calls change nothing at all).
C22_PgnFollowsTree ==
  /\ [](ret.op = "constructor" =>
          \E p \in Parsed : rawPGN = p.pgn /\ game = p.game)
  /\ [][/\ ret'.kind = "throw" => rawPGN' = rawPGN
        /\ ret'.kind = "return" =>
             rawPGN' = regeneratePGN(moveObjs', ravObjs', game', moveColor')]_vars

\* a pushMove has returned a Move played by black into a new Variation, and
\* pgn is no input text any more
C22_Witness ==
  /\ ret.op = "pushMove" /\ ret.kind = "return"
  /\ InVariation(ret.val)
  /\ moveColor[ret.val] = "b"
  /\ rawPGN = regeneratePGN(moveObjs, ravObjs, game, moveColor)
  /\ \A p \in Parsed : rawPGN # p.pgn

\* the loop of the README: move = getFirstMove(); while (hasNextMove(move))
\* move = nextMove(move).  The Moves the loop holds in turn, the last one
\* included; Undefined is appended if the loop is still running after fuel
\* steps.
RECURSIVE Traversal(_, _)
Traversal(move, fuel) ==
  IF ~hasNextMove(move) THEN <<move>>
  ELSE IF fuel = 0 THEN <<move, Undefined>>
  ELSE <<move>> \o Traversal(nextMove(move).val, fuel - 1)

\* C23: in every state whose tree holds a Move, the traversal loop from
\* getFirstMove() ends: it holds the top-level Moves in Container order and
\* no Move of a Variation, takes (number of top-level Moves - 1) steps and
\* ends at getLastMove().
C23_TraversalTerminates ==
  TreeMoves # {} =>
    LET walk == Traversal(getFirstMove.val, Len(moveObjs))
    IN /\ walk = game.moves
       /\ Len(walk) - 1 = Len(game.moves) - 1
       /\ walk[Len(walk)] = getLastMove.val
       /\ \A i \in 1..Len(walk) : walk[i] # Undefined /\ ~InVariation(walk[i])

\* a tree after a pushMove, with a Variation on its last top-level Move and
\* three top-level Moves: the loop ends at a Move that is not the last of
\* the order index
C23_Witness ==
  /\ ret.op = "pushMove" /\ ret.kind = "return"
  /\ Len(game.moves) = 3
  /\ moveObjs[LastTopLevel].ravs # <<>>
  /\ LastInOrder # LastTopLevel
  /\ Len(Traversal(getFirstMove.val, Len(moveObjs))) = 3

\* C24: in every state, previousMove of a Move object that is not in
\* sortedMoves (a Move that a deleteMove removed) throws: the invalid
\* parameter error when the game holds Moves, "No moves in game" when it
\* holds none.  It does not return undefined.
C24_PreviousOfRemovedMoveFails ==
  \A m \in 1..Len(moveObjs) :
    IndexOf(sortedMoves, m) = -1 =>
      previousMove(m) =
        Throw(IF Len(sortedMoves) = 0 THEN "No moves in game"
              ELSE "Invalid 'move' parameter while getting previous move")

\* C25: in every state (construction and every rebuild return), for every
\* Move m of the tree that the engine rejects, strict and sloppy, at the
\* position P it is played from: m is in sortedMoves, getMoveFen(m) is P,
\* the next Move of m's Container is played from P, and the first Move of
\* every Variation attached to a later Move of the Container is played from
\* the position before that later Move.
C25_RejectedMoveKeepsPosition ==
  \A m \in TreeMoves :
    LET P == ReplayBefore(m)
        C == MovesOf(ContainerOf(m))
    IN Played(P, moveObjs[m].move) = <<>> =>
         /\ IndexOf(sortedMoves, m) >= 0
         /\ getMoveFen(m) = [kind |-> "return", val |-> P, err |-> ""]
         /\ \A j \in (PlaceOf(m) + 1)..Len(C) :
              /\ j = PlaceOf(m) + 1 => moveFen[C[j]] = EngineStep(P, moveObjs[C[j]].move)
              /\ moveFen[C[j]] = EngineStep(ReplayBefore(C[j]), moveObjs[C[j]].move)
              /\ \A r \in Range(moveObjs[C[j]].ravs) :
                   ravObjs[r].moves # <<>> =>
                     LET f == ravObjs[r].moves[1]
                     IN moveFen[f] = EngineStep(ReplayBefore(C[j]), moveObjs[f].move)

\* a game whose second Move the engine rejects, after a pushMove that
\* attached a Variation to the Move after the rejected one
C25_Witness ==
  /\ ret.op = "pushMove" /\ ret.kind = "return"
  /\ \E m \in TreeMoves :
       /\ Played(ReplayBefore(m), moveObjs[m].move) = <<>>
       /\ ~IsLastOfContainer(m)
       /\ LET a == MovesOf(ContainerOf(m))[PlaceOf(m) + 1]
          IN /\ moveObjs[a].ravs # <<>>
             /\ ContainerOf(ret.val) = moveObjs[a].ravs[1]
             /\ moveFen[a] # moveFen[m]

\* C26: in every state every Move of the tree occurs in the Move sequence of
\* exactly one Container, exactly once, and moveParent sends it to that
\* Container; every Variation attached in the tree occurs in the Variation
\* list of exactly one Move, once, and ravParent sends it to that Move.
C26_OneContainerPerMove ==
  /\ \A m \in TreeMoves :
       LET places == {p \in TreeContainers \X (1..Len(moveObjs)) :
                        /\ p[2] <= Len(MovesOf(p[1]))
                        /\ MovesOf(p[1])[p[2]] = m}
       IN /\ Cardinality(places) = 1
          /\ MapHas(moveParent, m)
          /\ \A p \in places : moveParent[m] = p[1]
  /\ \A r \in TreeRavs :
       LET places == {p \in TreeMoves \X (1..Len(ravObjs)) :
                        /\ p[2] <= Len(moveObjs[p[1]].ravs)
                        /\ moveObjs[p[1]].ravs[p[2]] = r}
       IN /\ Cardinality(places) = 1
          /\ MapHas(ravParent, r)
          /\ \A p \in places : ravParent[r] = p[1]

\* pushMove has just continued a Variation, in a tree that a deleteMove or
\* the input left with Moves in three Containers
C26_Witness ==
  /\ ret.op = "pushMove" /\ ret.kind = "return"
  /\ InVariation(ret.val)
  /\ PlaceOf(ret.val) >= 2
  /\ Cardinality({ContainerOf(m) : m \in TreeMoves}) >= 3

\* C27: what regeneratePGN returns has the blank separator after the
\* comments above the headers, after the headers and after the comments
\* between headers and moves only when the section holds at least one
\* element; a section that is present with no element (an empty header list)
\* gets no separator, as an absent one.
C27_SeparatorOnlyIfAny ==
  ret.op = "regeneratePGN" =>
    LET Items(section) == IF section.isNull THEN <<>> ELSE section.items
        SepIfAny(lines) == IF lines = <<>> THEN <<>> ELSE lines \o <<"">>
        movesText == formatMoves(moveObjs, ravObjs, game.moves, moveColor)
    IN rawPGN =
         Join(SepIfAny(WrapAll(Items(game.comments_above_header)))
              \o SepIfAny(HeaderLines(Items(game.headers)))
              \o SepIfAny(WrapAll(Items(game.comments)))
              \o (IF movesText # "" THEN <<movesText>> ELSE <<>>)
              \o <<game.result>>, "\n")

\* C28: the move text regeneratePGN returns is, per Move in Container order,
\* the move number followed by "." (and ".." with no space when the color of
\* the Move is "b") only if the Move has a move number, the move text, each
\* comment, each Variation in attachment order as its own Moves rendered the
\* same way inside parentheses with the result of the Variation inside after
\* a space when it has one, all joined by single spaces.
C28_MoveSequenceRendering ==
  ret.op = "regeneratePGN" =>
    LET text == TokenText(MoveTokens(moveObjs, ravObjs, game.moves, moveColor))
        SepIfPresent(section, lines) ==
          IF section.isNull THEN <<>> ELSE lines \o <<"">>
    IN /\ formatMoves(moveObjs, ravObjs, game.moves, moveColor) = text
       /\ rawPGN =
            Join(SepIfPresent(game.comments_above_header,
                              WrapAll(game.comments_above_header.items))
                 \o SepIfPresent(game.headers, HeaderLines(game.headers.items))
                 \o SepIfPresent(game.comments, WrapAll(game.comments.items))
                 \o (IF text # "" THEN <<text>> ELSE <<>>)
                 \o <<game.result>>, "\n")

\* a document has been rendered whose Moves carry comments, a numbered
\* Move of black, two Variations on one Move, a Variation inside a
\* Variation and Variations with a result
C28_Witness ==
  /\ ret.op = "regeneratePGN"
  /\ \E m \in TreeMoves :
       /\ Len(moveObjs[m].ravs) = 2
       /\ \E r \in Range(moveObjs[m].ravs) : ravObjs[r].result # ""
  /\ \E m \in TreeMoves :
       /\ InVariation(m)
       /\ moveObjs[m].ravs # <<>>
       /\ moveObjs[m].move_number # Undefined
       /\ MapHas(moveColor, m) /\ moveColor[m] = "b"
  /\ \E m \in TreeMoves : Len(moveObjs[m].comments) = 2

\* C29: the Move a pushMove has created carries a defined integer
\* move_number whatever the anchor was, an anchor played by black without
\* a move_number of its own included, and no move number in the rendering
\* is a non-numeric one.
C29_InsertedMoveNumbered ==
  /\ (ret.op = "pushMove" /\ ret.kind = "return")
       => moveObjs[ret.val].move_number \notin {Undefined, NaN}
  /\ LET tokens == MoveTokens(moveObjs, ravObjs, game.moves, moveColor)
     IN \A i \in 1..Len(tokens) :
          tokens[i].kind = "number" => tokens[i].n # NaN

\* C30: after any sequence of pushMove and deleteMove calls every Variation
\* attached to a Move of the tree holds at least one Move.
C30_NoEmptyVariation ==
  \A r \in TreeRavs : ravObjs[r].moves # <<>>

\* C31: nextMove never goes backward in sortedMoves: for every Move m of the
\* tree with hasNextMove(m) true, getMoveNumber(nextMove(m)) is greater than
\* getMoveNumber(m), also when m ends a Variation attached to the last Move
\* of the top level.
C31_NextNeverGoesBack ==
  \A m \in TreeMoves :
    hasNextMove(m) =>
      /\ nextMove(m).kind = "return"
      /\ getMoveNumber(nextMove(m).val) > getMoveNumber(m)

\* the Moves nextMove gives in turn from a Move, up to the first Move that
\* nextMove returns for itself; Undefined is appended when none was reached
\* after fuel steps or nextMove gave no Move
RECURSIVE NextChain(_, _)
NextChain(move, fuel) ==
  IF nextMove(move) = Return(move) THEN <<move>>
  ELSE IF fuel = 0 \/ nextMove(move).kind # "return"
          \/ nextMove(move).val = Undefined
    THEN <<move, Undefined>>
  ELSE <<move>> \o NextChain(nextMove(move).val, fuel - 1)

\* C32: from every Move of the tree, at the top level or inside a Variation
\* at any depth, applying nextMove repeatedly reaches a Move m with
\* nextMove(m) = m after at most as many steps as the tree has Moves, and no
\* Move occurs twice on the way (nextMove has no cycle longer than one).
C32_NextReachesFixedPoint ==
  \A m \in TreeMoves :
    LET chain == NextChain(m, Len(sortedMoves))
    IN /\ chain[Len(chain)] # Undefined
       /\ nextMove(chain[Len(chain)]) = Return(chain[Len(chain)])
       /\ Len(chain) <= Len(sortedMoves)
       /\ \A i, j \in 1..Len(chain) : chain[i] = chain[j] => i = j
       /\ \A i \in 1..Len(chain) : chain[i] \in TreeMoves

\* after a push or a delete: a Move inside a Variation inside a Variation
\* from which nextMove leads out of both Variations to a fixed point at the
\* top level
C32_Witness ==
  /\ ret.op \in {"pushMove", "deleteMove"} /\ ret.kind = "return"
  /\ \E m \in TreeMoves :
       /\ InVariation(m)
       /\ InVariation(AnchorOf(ContainerOf(m)))
       /\ Len(NextChain(m, Len(sortedMoves))) >= 2
       /\ ~InVariation(NextChain(m, Len(sortedMoves))[Len(NextChain(m, Len(sortedMoves)))])

\* C33: previousMove of the Move a pushMove has just returned is the Move
\* the push was made at: getMove(moveId) for a moveId other than 0, whether
\* the new Move was appended to the Container of that Move or put into a new
\* Variation; undefined (no predecessor) for moveId 0.
C33_PreviousOfPushed ==
  [][\A moveId \in MoveIds, newMove \in Candidates, result \in Results :
       (/\ ret'.op = "pushMove" /\ ret'.kind = "return"
        /\ pushMove(moveId, newMove, result))
         => \E n \in 1..Len(moveObjs') :
              /\ n = ret'.val
              /\ previousMove(n)' =
                   IF moveId = 0 THEN Return(Undefined)
                   ELSE Return(getMove(moveId))]_vars

\* C33 (amended): previousMove of the Move a pushMove has just returned is
\* getMove(moveId) when the new Move was appended to the Container of that
\* Move (it was the last Move there), and the Move that follows
\* getMove(moveId) in its Container, to which the new Variation is attached,
\* when the new Move was put into a new Variation; for moveId 0 it is
\* undefined (no predecessor) when the top level was empty and the first
\* top-level Move, to which the new Variation is attached, otherwise.
C33_PreviousOfPushedAmended ==
  [][\A moveId \in MoveIds, newMove \in Candidates, result \in Results :
       (/\ ret'.op = "pushMove" /\ ret'.kind = "return"
        /\ pushMove(moveId, newMove, result))
         => \E n \in 1..Len(moveObjs') :
              /\ n = ret'.val
              /\ previousMove(n)' =
                   IF moveId = 0
                     THEN IF game.moves = <<>> THEN Return(Undefined)
                          ELSE Return(game.moves[1])
                   ELSE IF IsLastOfContainer(getMove(moveId))
                     THEN Return(getMove(moveId))
                   ELSE Return(MovesOf(ContainerOf(getMove(moveId)))
                                 [PlaceOf(getMove(moveId)) + 1])]_vars

\* pushMove has just put a new Move into a new Variation attached to a Move
\* that is not the first of its Container: previousMove of the new Move is
\* that Move and not the Move before it, at which the push was made
C33_Witness ==
  /\ ret.op = "pushMove" /\ ret.kind = "return"
  /\ ret.val \in TreeMoves
  /\ InVariation(ret.val)
  /\ MovesOf(ContainerOf(ret.val)) = <<ret.val>>
  /\ LET a == AnchorOf(ContainerOf(ret.val))
     IN /\ PlaceOf(a) > 1
        /\ previousMove(ret.val) = Return(a)
        /\ previousMove(a).val # a

\* C34: for every Move m of the tree for which previousMove(m) is a Move p,
\* the position m is played from in the traversal is getMoveFen(p), for
\* Moves inside Variations as for top-level Moves.
C34_PreviousGivesPositionBefore ==
  \A m \in TreeMoves :
    (previousMove(m).kind = "return" /\ previousMove(m).val # Undefined)
      => ReplayBefore(m) = getMoveFen(previousMove(m).val).val

\* C34 (amended): for every Move m of the tree for which previousMove(m) is
\* a Move p: when m is not the first Move of its Container, the position m
\* is played from in the traversal is getMoveFen(p); when m is the first
\* Move of a Variation, p is the anchor of the Variation and m is played
\* from the position p is played from, which is getMoveFen(p) only when the
\* rules engine rejected p.
C34_PreviousGivesPositionBeforeAmended ==
  \A m \in TreeMoves :
    (previousMove(m).kind = "return" /\ previousMove(m).val # Undefined)
      => LET p == previousMove(m).val
         IN /\ p \in TreeMoves
            /\ getMoveFen(p).kind = "return"
            /\ IF PlaceOf(m) > 1
                 THEN ReplayBefore(m) = getMoveFen(p).val
                 ELSE /\ InVariation(m)
                      /\ p = AnchorOf(ContainerOf(m))
                      /\ ReplayBefore(m) = ReplayBefore(p)
                      /\ (ReplayBefore(m) = getMoveFen(p).val)
                           <=> (Played(ReplayBefore(p), moveObjs[p].move) = <<>>)

\* after a push: the second Move of a Variation, played from the cached
\* position of the first, and the first Move of that Variation, played from
\* the position before its anchor and not from the anchor's cached position
C34_Witness ==
  /\ ret.op = "pushMove" /\ ret.kind = "return"
  /\ \E m \in TreeMoves :
       /\ InVariation(m)
       /\ PlaceOf(m) = 2
       /\ ReplayBefore(m) = getMoveFen(previousMove(m).val).val
       /\ LET f == previousMove(m).val
              a == previousMove(f).val
          IN /\ a = AnchorOf(ContainerOf(m))
             /\ ReplayBefore(f) # getMoveFen(a).val
             /\ ReplayBefore(f) = ReplayBefore(a)

\* C35: a deleteMove(k) that returns shortens sortedMoves by the number of
\* Moves from the Move at k to the end of its Container together with every
\* Move in the Variations below them, and the Moves that stay keep their
\* order; deleteMove(1) leaves sortedMoves empty, so that getFirstMove
\* throws "No moves in game", and a pushMove(0, ...) of a legal move that
\* follows makes the new Move the only Move of the top level.
C35_DeleteShrinksOrder ==
  /\ [][\A moveId \in MoveIds :
          (/\ ret'.op = "deleteMove" /\ ret'.kind = "return"
           /\ deleteMove(moveId))
            => LET k == getMove(moveId)
                   C == ContainerOf(k)
                   gone == MovesBelow(SubSeq(MovesOf(C), PlaceOf(k), Len(MovesOf(C))))
               IN /\ Len(sortedMoves') = Len(sortedMoves) - Cardinality(gone)
                  /\ sortedMoves' = SelectSeq(sortedMoves, LAMBDA m : m \notin gone)
                  /\ moveId = 1
                       => /\ sortedMoves' = <<>>
                          /\ game'.moves = <<>>
                          /\ getFirstMove' = Throw("No moves in game")]_vars
  /\ [][\A newMove \in Candidates, result \in Results :
          (/\ ret.op = "deleteMove" /\ ret.kind = "return"
           /\ sortedMoves = <<>>
           /\ Played(Chess(pushStartFen), newMove) # <<>>
           /\ pushMove(0, newMove, result))
            => /\ ret'.kind = "return"
               /\ game'.moves = <<ret'.val>>
               /\ sortedMoves' = <<ret'.val>>
               /\ TreeRavs' = {}]_vars

\* a game of several Moves, with a Variation, was emptied by deleteMove(1)
\* and pushMove(0, ...) has then put a new Move alone at the top level
C35_Witness ==
  /\ ret.op = "pushMove" /\ ret.kind = "return"
  /\ Len(moveObjs) >= 3
  /\ ravObjs # <<>>
  /\ game.moves = <<ret.val>>
  /\ sortedMoves = <<ret.val>>
  /\ ret.val = Len(moveObjs)

====
